---- MODULE Spec2Model ----
(***************************************************************************)
(* Model of the two developer scripts of the repository:                   *)
(*   scripts/analyze-test-coverage.py  (classifier, scanner, report)       *)
(*   scripts/generate-test-template.py (test-skeleton synthesizer)         *)
(* Strings are sequences of one-character strings, so that substring       *)
(* tests, lower-casing, stems and suffixes are computed, not assumed.      *)
(* A path is a sequence of segments below BASEDIR.                         *)
(***************************************************************************)
EXTENDS Integers, Sequences, FiniteSets, TLC

VARIABLES
    lines,        \* get_complexity: the line count passed in
    complexity,   \* get_complexity: the label returned ("unset" before the call)
    filename,     \* get_priority: the stem passed in
    filepath,     \* get_priority: the path passed in
    priority,     \* get_priority: the label returned ("unset" before the call)
    fs,           \* the file system: [files: path -> contents, dirs: set of paths]
    dirOrder,     \* the order in which the file system lists a directory
    pc,           \* position of the script that is running
    scanRoot,     \* analyze_directory: the directory passed in
    results,      \* analyze_directory: the list returned
    counts,       \* generate_report: the file counts of lines 121-141
    scanned,      \* generate_report: the list untested as the scan left it
    untested,     \* generate_report: the list untested
    report,       \* generate_report: the figures and tables written
    info,         \* analyze_component: the value returned
    skeleton,     \* generate_test_template: the text returned
    run,          \* generate-test-template.py: which run of main this is
    idx,          \* main: how many of TOP_20_COMPONENTS the loop has processed
    created,      \* main: the counter created
    skipped,      \* main: the counter skipped
    errors,       \* main: the counter errors
    fsRunStart,   \* the file system as it was when this run of main began
    log           \* main: what this run has printed, one entry per component

varsClassifier == <<lines, complexity, filename, filepath, priority>>
varsFs == <<fs, dirOrder>>
varsScan == <<scanRoot, results>>
varsReport == <<counts, scanned, untested, report>>
varsTemplate == <<info, skeleton>>
varsMain == <<run, idx, created, skipped, errors, fsRunStart, log>>
vars == <<lines, complexity, filename, filepath, priority, fs, dirOrder, pc,
          scanRoot, results, counts, scanned, untested, report,
          info, skeleton, run, idx, created, skipped, errors, fsRunStart,
          log>>

----------------------------------------------------------------------------
(* Strings *)

UpperLetters == <<"A","B","C","D","E","F","G","H","I","J","K","L","M","N","O","P","Q","R","S","T","U","V","W","X","Y","Z">>
LowerLetters == <<"a","b","c","d","e","f","g","h","i","j","k","l","m","n","o","p","q","r","s","t","u","v","w","x","y","z">>

\* the characters of names and labels, in code-point order
AllChars ==
    <<" ","-",".","/","0","1","2","3","4","5","6","7","8","9",":","A","B","C","D","E","F","G","H","I","J","K","L","M","N","O","P","Q","R","S","T","U","V","W","X","Y","Z","[","]","_","a","b","c","d","e","f","g","h","i","j","k","l","m","n","o","p","q","r","s","t","u","v","w","x","y","z">>

Chars == { AllChars[i] : i \in DOMAIN AllChars }

\* ord(c)
char_code == [c \in Chars |-> CHOOSE i \in DOMAIN AllChars : AllChars[i] = c]

\* str.lower() on one character
lower_char ==
    [c \in Chars |->
        IF \E i \in 1..26 : UpperLetters[i] = c
        THEN LowerLetters[CHOOSE i \in 1..26 : UpperLetters[i] = c]
        ELSE c]

\* str.lower()
str_lower(s) == [i \in 1..Len(s) |-> lower_char[s[i]]]

\* str.upper() on one character; used only to build mixed-case inputs
upper_char ==
    [c \in Chars |->
        IF \E i \in 1..26 : LowerLetters[i] = c
        THEN UpperLetters[CHOOSE i \in 1..26 : LowerLetters[i] = c]
        ELSE c]

str_upper(s) == [i \in 1..Len(s) |-> upper_char[s[i]]]

\* Python's  p in s  on strings
str_in(p, s) ==
    \E i \in 0..(Len(s) - Len(p)) : \A k \in 1..Len(p) : s[i + k] = p[k]

\* str.endswith
str_endswith(s, p) ==
    Len(s) >= Len(p) /\ \A k \in 1..Len(p) : s[Len(s) - Len(p) + k] = p[k]

RECURSIVE str_join(_)
\* concatenation of a sequence of strings
str_join(ss) == IF ss = <<>> THEN <<>> ELSE Head(ss) \o str_join(Tail(ss))

----------------------------------------------------------------------------
(* Paths *)

BASEDIR == <<"/","U","s","e","r","s","/","a","i","d","e","v","e","l","o","p","e","r","/","a","i","n","a","t","i","v","e","-","w","e","b","s","i","t","e","-","n","e","x","t","j","s","-","s","t","a","g","i","n","g">>

RECURSIVE path_tail_str(_)
path_tail_str(p) ==
    IF p = <<>> THEN <<>> ELSE <<"/">> \o Head(p) \o path_tail_str(Tail(p))

\* str(BASEDIR / seg1 / ... / segn)
path_str(p) == BASEDIR \o path_tail_str(p)

\* Path.name and Path.parent
path_name(p) == p[Len(p)]
path_parent(p) == SubSeq(p, 1, Len(p) - 1)

\* index of the last "." of a name, 0 when there is none
last_dot(n) ==
    IF \E i \in 1..Len(n) : n[i] = "."
    THEN CHOOSE i \in 1..Len(n) : n[i] = "." /\ \A j \in (i + 1)..Len(n) : n[j] # "."
    ELSE 0

\* PurePath.suffix: the part from the last dot, unless the dot is the first
\* or the last character of the name
path_suffix(p) ==
    LET n == path_name(p)
        i == last_dot(n)
    IN  IF 1 < i /\ i < Len(n) THEN SubSeq(n, i, Len(n)) ELSE <<>>

\* PurePath.stem
path_stem(p) ==
    LET n == path_name(p)
        i == last_dot(n)
    IN  IF 1 < i /\ i < Len(n) THEN SubSeq(n, 1, i - 1) ELSE n

----------------------------------------------------------------------------
(* Coverage classifier: analyze-test-coverage.py *)

HighThreshold == 300
MediumThreshold == 150

get_complexity_offbyone(n) ==
    IF n >= HighThreshold THEN "High"
    ELSE IF n >= MediumThreshold THEN "Medium"
    ELSE "Low"

get_complexity(n) ==
    IF n > HighThreshold THEN "High"
    ELSE IF n > MediumThreshold THEN "Medium"
    ELSE "Low"

high_patterns ==
    << <<"C","l","i","e","n","t">>, <<"P","a","g","e">>, <<"F","o","r","m">>, <<"M","o","d","a","l">>, <<"D","i","a","l","o","g">>,
       <<"A","u","t","h">>, <<"P","a","y","m","e","n","t">>, <<"C","h","e","c","k","o","u","t">>, <<"D","a","s","h","b","o","a","r","d">>,
       <<"S","e","r","v","i","c","e">>, <<"P","r","o","v","i","d","e","r">>, <<"H","o","o","k">> >>

medium_patterns ==
    << <<"S","e","t","t","i","n","g","s">>, <<"P","r","o","f","i","l","e">>, <<"M","a","n","a","g","e","m","e","n","t">>, <<"E","d","i","t","o","r">>,
       <<"T","a","b","l","e">>, <<"L","i","s","t">>, <<"P","a","n","e","l">>, <<"S","e","c","t","i","o","n">> >>

business_logic_paths ==
    << <<"d","a","s","h","b","o","a","r","d">>, <<"a","d","m","i","n">>, <<"b","i","l","l","i","n","g">>, <<"a","u","t","h">>, <<"p","l","a","n">> >>

\* a bug that tests the directory rule before the filename rule
get_priority_path_first(fname, fpath) ==
    LET filename_lower == str_lower(fname)
        filepath_lower == str_lower(path_str(fpath))
    IN  IF \E i \in DOMAIN business_logic_paths :
              str_in(business_logic_paths[i], filepath_lower)
        THEN "High"
        ELSE IF \E i \in DOMAIN high_patterns :
              str_in(str_lower(high_patterns[i]), filename_lower)
        THEN "Critical"
        ELSE IF \E i \in DOMAIN medium_patterns :
              str_in(str_lower(medium_patterns[i]), filename_lower)
        THEN "Medium"
        ELSE "Low"

\* a bug that tests the medium filename rule before the directory rule
get_priority_medium_first(fname, fpath) ==
    LET filename_lower == str_lower(fname)
        filepath_lower == str_lower(path_str(fpath))
    IN  IF \E i \in DOMAIN high_patterns :
              str_in(str_lower(high_patterns[i]), filename_lower)
        THEN "Critical"
        ELSE IF \E i \in DOMAIN medium_patterns :
              str_in(str_lower(medium_patterns[i]), filename_lower)
        THEN "Medium"
        ELSE IF \E i \in DOMAIN business_logic_paths :
              str_in(business_logic_paths[i], filepath_lower)
        THEN "High"
        ELSE "Low"

get_priority(fname, fpath) ==
    LET filename_lower == str_lower(fname)
        filepath_lower == str_lower(path_str(fpath))
    IN  IF \E i \in DOMAIN high_patterns :
              str_in(str_lower(high_patterns[i]), filename_lower)
        THEN "Critical"
        ELSE IF \E i \in DOMAIN business_logic_paths :
              str_in(business_logic_paths[i], filepath_lower)
        THEN "High"
        ELSE IF \E i \in DOMAIN medium_patterns :
              str_in(str_lower(medium_patterns[i]), filename_lower)
        THEN "Medium"
        ELSE "Low"

----------------------------------------------------------------------------
(* Inputs of the classifier *)

MaxLines == 400
MaxWords == 2

\* words a component name is made of: the pattern words themselves and
\* words that match no filename pattern
NeutralWords == { <<"B","u","t","t","o","n">>, <<"W","i","d","g","e","t">>, <<"E","x","p","l","a","n","a","t","i","o","n">>, <<"i","n","d","e","x">> }

NameWords ==
    { high_patterns[i] : i \in DOMAIN high_patterns }
        \cup { medium_patterns[i] : i \in DOMAIN medium_patterns }
        \cup NeutralWords

\* the words that follow the first word of a name
TailWords == { <<"P","a","g","e">>, <<"C","l","i","e","n","t">>, <<"L","i","s","t">>, <<"S","e","c","t","i","o","n">>, <<"W","i","d","g","e","t">>, <<"i","n","d","e","x">> }

\* names of up to MaxWords words: any word first, then words of TailWords
WordSeqs ==
    UNION { { ws \in [1..n -> NameWords] : \A i \in 2..n : ws[i] \in TailWords } :
            n \in 1..MaxWords }

\* each name as written, all lower case and all upper case
SampleStems ==
    UNION { { str_join(ws), str_lower(str_join(ws)), str_upper(str_join(ws)) } :
            ws \in WordSeqs }

SampleDirs ==
    { [ dir |-> <<<<"c","o","m","p","o","n","e","n","t","s">>, <<"u","i">>>>, ext |-> <<".","t","s","x">> ],
      [ dir |-> <<<<"a","p","p">>, <<"d","a","s","h","b","o","a","r","d">>, <<"a","g","e","n","t","s">>>>, ext |-> <<".","t","s","x">> ],
      [ dir |-> <<<<"a","p","p">>, <<"B","i","l","l","i","n","g">>>>, ext |-> <<".","t","s","x">> ],
      [ dir |-> <<<<"c","o","m","p","o","n","e","n","t","s">>, <<"a","d","m","i","n">>>>, ext |-> <<".","t","s","x">> ],
      [ dir |-> <<<<"s","e","r","v","i","c","e","s">>>>, ext |-> <<".","t","s">> ],
      [ dir |-> <<<<"l","i","b">>, <<"c","o","n","f","i","g">>, <<"p","l","a","n","s">>>>, ext |-> <<".","t","s">> ] }

----------------------------------------------------------------------------
(* File system: regular files with their contents, and directories *)

\* contents of a source file: its line count and the lines that carry one
\* of the patterns analyze_component looks for (by snippet name)
SourceContent(n, sn) ==
    [ readable |-> TRUE, nlines |-> n, kind |-> "source", snippets |-> sn,
      component |-> <<>>, sections |-> <<>>, state_tests |-> <<>> ]

\* contents of a file nobody reads in the model (a hand-written test, a
\* helper, a file of another language)
OtherContent(n) ==
    [ readable |-> TRUE, nlines |-> n, kind |-> "other", snippets |-> <<>>,
      component |-> <<>>, sections |-> <<>>, state_tests |-> <<>> ]

is_prefix(d, p) == Len(d) <= Len(p) /\ SubSeq(p, 1, Len(d)) = d

\* the directories a file at p needs: all its proper ancestors
ancestors(p) == { SubSeq(p, 1, n) : n \in 0..(Len(p) - 1) }

\* Path.exists(), Path.is_dir()
path_exists(tree, p) == p \in DOMAIN tree.files \/ p \in tree.dirs
path_is_dir(tree, p) == p \in tree.dirs

\* the file written at p with contents c; the directories are untouched
write_file(tree, p, c) ==
    [ tree EXCEPT !.files = [q \in DOMAIN tree.files \cup {p} |->
                              IF q = p THEN c ELSE tree.files[q]] ]

----------------------------------------------------------------------------
(* Order of directory listings.  os.scandir gives the entries of a         *)
(* directory in an order the file system chooses; the model lets it be     *)
(* ascending or descending by name.                                        *)

ListingOrders == { "ascending", "descending" }

RECURSIVE str_less(_, _)
\* Python's  a < b  on strings (code-point order)
str_less(a, b) ==
    IF b = <<>> THEN FALSE
    ELSE IF a = <<>> THEN TRUE
    ELSE IF Head(a) # Head(b) THEN char_code[Head(a)] < char_code[Head(b)]
    ELSE str_less(Tail(a), Tail(b))

\* whether sibling a is listed before sibling b
sibling_before(a, b, order) ==
    IF order = "ascending" THEN str_less(a, b) ELSE str_less(b, a)

RECURSIVE dir_before(_, _, _)
\* whether directory d is walked before directory e: a directory before
\* what is below it, siblings in listing order
dir_before(d, e, order) ==
    IF e = <<>> THEN FALSE
    ELSE IF d = <<>> THEN TRUE
    ELSE IF Head(d) # Head(e) THEN sibling_before(Head(d), Head(e), order)
    ELSE dir_before(Tail(d), Tail(e), order)

\* whether rglob yields p before q
yield_before(p, q, order) ==
    IF path_parent(p) # path_parent(q)
    THEN dir_before(path_parent(p), path_parent(q), order)
    ELSE sibling_before(path_name(p), path_name(q), order)

RECURSIVE in_yield_order(_, _)
\* the paths of S in the order rglob yields them
in_yield_order(S, order) ==
    IF S = {} THEN <<>>
    ELSE LET first == CHOOSE p \in S :
                          \A q \in S \ {p} : yield_before(p, q, order)
         IN  <<first>> \o in_yield_order(S \ {first}, order)

\* directory.rglob('*' + ext), as a set: everything below directory, files
\* and directories alike, whose name ends with ext; nothing when the
\* directory does not exist
rglob_set(tree, directory, ext) ==
    IF ~ path_is_dir(tree, directory) THEN {}
    ELSE { p \in DOMAIN tree.files \cup tree.dirs :
             /\ Len(p) > Len(directory)
             /\ is_prefix(directory, p)
             /\ str_endswith(path_name(p), ext) }

\* directory.rglob('*' + ext), in the order the walk yields
rglob_ext(tree, directory, ext, order) ==
    in_yield_order(rglob_set(tree, directory, ext), order)

\* directory.rglob('*/__tests__/*' + tail): as above, for the entries
\* whose parent is named __tests__ and lies at least two levels below
\* directory
rglob_tests(tree, directory, tail) ==
    IF ~ path_is_dir(tree, directory) THEN {}
    ELSE { p \in DOMAIN tree.files \cup tree.dirs :
             /\ Len(p) >= Len(directory) + 3
             /\ is_prefix(directory, p)
             /\ p[Len(p) - 1] = <<"_","_","t","e","s","t","s","_","_">>
             /\ str_endswith(path_name(p), tail) }

----------------------------------------------------------------------------
(* Directory scanner: analyze-test-coverage.py *)

\* as count_lines, without the try/except that turns a failed read into 0
count_lines_unguarded(tree, file_path) ==
    IF file_path \in DOMAIN tree.files THEN tree.files[file_path].nlines ELSE 0

\* open() and readlines(): any failure counts as no lines
count_lines(tree, file_path) ==
    IF file_path \in DOMAIN tree.files /\ tree.files[file_path].readable
    THEN tree.files[file_path].nlines
    ELSE 0

\* str(file_path.relative_to(BASEDIR))
relative_str(p) ==
    IF p = <<>> THEN <<".">> ELSE Tail(path_tail_str(p))

\* a bug that looks for the test beside the source, not in __tests__
scan_test_file_beside(file_path, ext) ==
    Append(path_parent(file_path), path_stem(file_path) \o <<".","t","e","s","t">> \o ext)

\* file_path.parent / '__tests__' / f"{file_path.stem}.test{ext}"
scan_test_file(file_path, ext) ==
    Append(Append(path_parent(file_path), <<"_","_","t","e","s","t","s","_","_">>),
           path_stem(file_path) \o <<".","t","e","s","t">> \o ext)

\* the skip test of the loop body
scan_skips(file_path) ==
    LET s == path_str(file_path)
    IN  \/ str_in(<<"_","_","t","e","s","t","s","_","_">>, s)
        \/ str_in(<<"n","o","d","e","_","m","o","d","u","l","e","s">>, s)
        \/ str_in(<<".","n","e","x","t">>, s)

\* the entry appended for one file
scan_entry(tree, file_path, category) ==
    LET n == count_lines(tree, file_path)
    IN  [ path |-> relative_str(file_path),
          priority |-> get_priority(path_stem(file_path), file_path),
          complexity |-> get_complexity(n),
          lines |-> n,
          category |-> category ]

RECURSIVE scan_paths(_, _, _, _)
\* the inner loop over the paths rglob yields for one extension
scan_paths(tree, paths, ext, category) ==
    IF paths = <<>> THEN <<>>
    ELSE LET file_path == Head(paths)
             rest == scan_paths(tree, Tail(paths), ext, category)
         IN  IF scan_skips(file_path) THEN rest
             ELSE IF path_exists(tree, scan_test_file(file_path, ext)) THEN rest
             ELSE <<scan_entry(tree, file_path, category)>> \o rest

analyze_directory(tree, directory, category, order) ==
    scan_paths(tree, rglob_ext(tree, directory, <<".","t","s","x">>, order), <<".","t","s","x">>, category)
        \o scan_paths(tree, rglob_ext(tree, directory, <<".","t","s">>, order), <<".","t","s">>, category)

----------------------------------------------------------------------------
(* Directory trees the scripts are run on: a tree laid out like the        *)
(* application the scripts were written for, and the trees a few edits     *)
(* away from it.                                                           *)

TOP_20_COMPONENTS ==
    << <<"a","p","p","/","d","e","v","-","r","e","s","o","u","r","c","e","s","/","D","e","v","R","e","s","o","u","r","c","e","s","C","l","i","e","n","t",".","t","s","x">>,
       <<"a","p","p","/","d","a","s","h","b","o","a","r","d","/","a","g","e","n","t","s","/","A","g","e","n","t","s","C","l","i","e","n","t",".","t","s","x">>,
       <<"a","p","p","/","d","e","s","i","g","n","-","s","y","s","t","e","m","-","s","h","o","w","c","a","s","e","/","D","e","s","i","g","n","S","y","s","t","e","m","S","h","o","w","c","a","s","e","C","l","i","e","n","t",".","t","s","x">>,
       <<"s","e","r","v","i","c","e","s","/","Q","N","N","A","p","i","C","l","i","e","n","t",".","t","s">>,
       <<"a","p","p","/","d","a","s","h","b","o","a","r","d","/","e","m","a","i","l","/","E","m","a","i","l","M","a","n","a","g","e","m","e","n","t","C","l","i","e","n","t",".","t","s","x">>,
       <<"a","p","p","/","a","i","-","k","i","t","/","A","I","K","i","t","C","l","i","e","n","t",".","t","s","x">>,
       <<"a","p","p","/","d","a","s","h","b","o","a","r","d","/","z","e","r","o","d","b","/","Z","e","r","o","D","B","C","l","i","e","n","t",".","t","s","x">>,
       <<"a","p","p","/","a","p","i","-","r","e","f","e","r","e","n","c","e","/","A","P","I","R","e","f","e","r","e","n","c","e","C","l","i","e","n","t",".","t","s","x">>,
       <<"a","p","p","/","d","a","s","h","b","o","a","r","d","/","l","o","a","d","-","t","e","s","t","i","n","g","/","L","o","a","d","T","e","s","t","i","n","g","C","l","i","e","n","t",".","t","s","x">>,
       <<"a","p","p","/","i","n","t","e","g","r","a","t","i","o","n","s","/","I","n","t","e","g","r","a","t","i","o","n","s","C","l","i","e","n","t",".","t","s","x">>,
       <<"a","p","p","/","e","x","a","m","p","l","e","s","/","E","x","a","m","p","l","e","s","C","l","i","e","n","t",".","t","s","x">>,
       <<"a","p","p","/","d","a","s","h","b","o","a","r","d","/","D","a","s","h","b","o","a","r","d","C","l","i","e","n","t",".","t","s","x">>,
       <<"a","p","p","/","d","a","s","h","b","o","a","r","d","/","a","p","i","-","s","a","n","d","b","o","x","/","A","P","I","S","a","n","d","b","o","x","C","l","i","e","n","t",".","t","s","x">>,
       <<"a","p","p","/","d","a","s","h","b","o","a","r","d","/","m","a","i","n","/","M","a","i","n","D","a","s","h","b","o","a","r","d","C","l","i","e","n","t",".","t","s","x">>,
       <<"a","p","p","/","c","o","m","m","u","n","i","t","y","/","v","i","d","e","o","s","/","[","s","l","u","g","]","/","V","i","d","e","o","D","e","t","a","i","l","C","l","i","e","n","t",".","t","s","x">>,
       <<"a","p","p","/","d","e","v","e","l","o","p","e","r","-","t","o","o","l","s","/","D","e","v","e","l","o","p","e","r","T","o","o","l","s","C","l","i","e","n","t",".","t","s","x">>,
       <<"a","p","p","/","d","a","s","h","b","o","a","r","d","/","s","e","s","s","i","o","n","s","/","S","e","s","s","i","o","n","s","C","l","i","e","n","t",".","t","s","x">>,
       <<"a","p","p","/","d","a","s","h","b","o","a","r","d","/","m","c","p","-","h","o","s","t","i","n","g","/","M","C","P","H","o","s","t","i","n","g","C","l","i","e","n","t",".","t","s","x">>,
       <<"a","p","p","/","d","e","m","o","/","p","r","o","g","r","e","s","s","-","i","n","d","i","c","a","t","o","r","s","/","P","r","o","g","r","e","s","s","I","n","d","i","c","a","t","o","r","s","D","e","m","o","C","l","i","e","n","t",".","t","s","x">>,
       <<"a","p","p","/","a","g","e","n","t","-","s","w","a","r","m","/","A","g","e","n","t","S","w","a","r","m","C","l","i","e","n","t",".","t","s","x">> >>

RECURSIVE split_slash(_, _)
\* the segments of a "/"-separated string; cur is the segment being read
split_slash(s, cur) ==
    IF s = <<>> THEN <<cur>>
    ELSE IF Head(s) = "/" THEN <<cur>> \o split_slash(Tail(s), <<>>)
    ELSE split_slash(Tail(s), Append(cur, Head(s)))

\* BASEDIR / component_path_str
base_join(s) == split_slash(s, <<>>)

\* the twenty target files: line count and pattern lines of each
TargetContents ==
    << SourceContent(420, << "use_client" >>),
       SourceContent(420, << "use_client", "state_count" >>),
       SourceContent(420, << "form_tag" >>),
       SourceContent(310, << "state_count", "on_submit" >>),
       SourceContent(301, << "fetch_call" >>),
       SourceContent(300, << "state_items", "axios_import" >>),
       SourceContent(300, << "form_tag", "get_call" >>),
       SourceContent(280, << "state_open", "on_submit", "post_call" >>),
       SourceContent(151, << "use_mutation" >>),
       SourceContent(151, << "state_count", "mutate_call" >>),
       SourceContent(150, << "form_tag", "on_create" >>),
       SourceContent(150, << "state_items", "on_submit", "on_update" >>),
       SourceContent(120, << "fetch_call", "on_delete" >>),
       SourceContent(120, << "state_open", "fetch_call", "use_mutation" >>),
       SourceContent(120, << "form_tag", "axios_import", "mutate_call" >>),
       SourceContent(90,
          << "use_client", "state_count", "form_tag", "fetch_call", "use_mutation" >>),
       SourceContent(90,
          << "state_count", "state_items", "state_open", "state_query",
             "state_page", "state_sort", "async_load" >>),
       SourceContent(40, << "react_import", "plain_jsx" >>),
       SourceContent(40, << >>),
       SourceContent(0, << >>) >>

\* the other source files of the tree
OtherSources ==
    { [ path |-> <<<<"c","o","m","p","o","n","e","n","t","s">>, <<"u","i">>, <<"B","u","t","t","o","n",".","t","s","x">>>>, content |-> SourceContent(200, << "plain_jsx" >>) ],
      [ path |-> <<<<"c","o","m","p","o","n","e","n","t","s">>, <<"u","i">>, <<"A","u","t","h","M","o","d","a","l",".","t","s","x">>>>, content |-> SourceContent(310, << "state_open", "on_submit" >>) ],
      [ path |-> <<<<"c","o","m","p","o","n","e","n","t","s">>, <<"u","i">>, <<"D","a","t","a","T","a","b","l","e",".","t","s","x">>>>, content |-> SourceContent(90, << "state_sort" >>) ],
      [ path |-> <<<<"c","o","m","p","o","n","e","n","t","s">>, <<"u","i">>, <<"B","a","d","g","e",".","t","s","x">>>>, content |-> SourceContent(40, << "plain_jsx" >>) ],
      [ path |-> <<<<"c","o","m","p","o","n","e","n","t","s">>, <<"u","i">>, <<"C","a","r","d",".","t","s","x">>>>, content |-> SourceContent(40, << "plain_jsx" >>) ],
      [ path |-> <<<<"c","o","m","p","o","n","e","n","t","s">>, <<"u","i">>, <<"t","y","p","e","s",".","t","s">>>>, content |-> SourceContent(40, << >>) ],
      [ path |-> <<<<"c","o","m","p","o","n","e","n","t","s">>, <<"l","a","y","o","u","t">>, <<"H","e","a","d","e","r",".","t","s","x">>>>, content |-> SourceContent(130, << "state_open" >>) ],
      [ path |-> <<<<"c","o","m","p","o","n","e","n","t","s">>, <<"l","a","y","o","u","t">>, <<"S","i","d","e","b","a","r",".","t","s","x">>>>, content |-> SourceContent(160, << "plain_jsx" >>) ],
      [ path |-> <<<<"c","o","m","p","o","n","e","n","t","s">>, <<"s","e","c","t","i","o","n","s">>, <<"H","e","r","o","S","e","c","t","i","o","n",".","t","s","x">>>>, content |-> SourceContent(220, << "plain_jsx" >>) ],
      [ path |-> <<<<"c","o","m","p","o","n","e","n","t","s">>, <<"p","r","o","v","i","d","e","r","s">>, <<"Q","u","e","r","y","P","r","o","v","i","d","e","r",".","t","s","x">>>>, content |-> SourceContent(60, << "use_client" >>) ],
      [ path |-> <<<<"c","o","m","p","o","n","e","n","t","s">>, <<"b","i","l","l","i","n","g">>, <<"P","l","a","n","C","a","r","d",".","t","s","x">>>>, content |-> SourceContent(180, << "fetch_call" >>) ],
      [ path |-> <<<<"a","p","p">>, <<"p","a","g","e",".","t","s","x">>>>, content |-> SourceContent(80, << "plain_jsx" >>) ],
      [ path |-> <<<<"a","p","p">>, <<"a","p","i">>, <<"h","e","a","l","t","h">>, <<"r","o","u","t","e",".","t","s">>>>, content |-> SourceContent(30, << >>) ],
      [ path |-> <<<<"a","p","p">>, <<"d","a","s","h","b","o","a","r","d">>, <<"l","a","y","o","u","t",".","t","s","x">>>>, content |-> SourceContent(70, << "plain_jsx" >>) ],
      [ path |-> <<<<"a","p","p">>, <<"p","r","i","c","i","n","g">>, <<"P","r","i","c","i","n","g","T","a","b","l","e",".","t","s","x">>>>, content |-> SourceContent(320, << "plain_jsx" >>) ],
      [ path |-> <<<<"s","e","r","v","i","c","e","s">>, <<"A","u","t","h","S","e","r","v","i","c","e",".","t","s">>>>, content |-> SourceContent(260, << "fetch_call", "post_call" >>) ],
      [ path |-> <<<<"l","i","b">>, <<"u","t","i","l","s",".","t","s">>>>, content |-> SourceContent(60, << >>) ],
      [ path |-> <<<<"l","i","b">>, <<"c","o","n","f","i","g">>, <<"p","l","a","n","-","l","i","m","i","t","s",".","t","s">>>>, content |-> SourceContent(25, << >>) ],
      [ path |-> <<<<"c","o","m","p","o","n","e","n","t","s">>, <<"u","i">>, <<"n","o","d","e","_","m","o","d","u","l","e","s">>, <<"p","k","g">>, <<"i","n","d","e","x",".","t","s">>>>, content |-> SourceContent(500, << >>) ],
      [ path |-> <<<<"c","o","m","p","o","n","e","n","t","s">>, <<"v","i","d","e","o">>, <<".","n","e","x","t">>, <<"c","a","c","h","e",".","t","s">>>>, content |-> SourceContent(500, << >>) ] }

\* files that are no source files: tests already written, helpers, styles
OtherFiles ==
    { [ path |-> <<<<"c","o","m","p","o","n","e","n","t","s">>, <<"l","a","y","o","u","t">>, <<"_","_","t","e","s","t","s","_","_">>, <<"H","e","a","d","e","r",".","t","e","s","t",".","t","s","x">>>>, content |-> OtherContent(50) ],
      [ path |-> <<<<"c","o","m","p","o","n","e","n","t","s">>, <<"l","a","y","o","u","t">>, <<"_","_","t","e","s","t","s","_","_">>, <<"s","e","t","u","p",".","t","s">>>>, content |-> OtherContent(10) ],
      [ path |-> <<<<"s","e","r","v","i","c","e","s">>, <<"_","_","t","e","s","t","s","_","_">>, <<"A","u","t","h","S","e","r","v","i","c","e",".","t","e","s","t",".","t","s">>>>, content |-> OtherContent(80) ],
      [ path |-> <<<<"l","i","b">>, <<"c","o","n","f","i","g">>, <<"_","_","t","e","s","t","s","_","_">>, <<"p","l","a","n","-","l","i","m","i","t","s",".","t","e","s","t",".","t","s">>>>, content |-> OtherContent(20) ],
      [ path |-> <<<<"a","p","p">>, <<"d","a","s","h","b","o","a","r","d">>, <<"a","g","e","n","t","s">>, <<"_","_","t","e","s","t","s","_","_">>, <<"A","g","e","n","t","s","C","l","i","e","n","t",".","t","e","s","t",".","t","s","x">>>>, content |-> OtherContent(35) ],
      [ path |-> <<<<"c","o","m","p","o","n","e","n","t","s">>, <<"u","i">>, <<"s","t","y","l","e","s",".","c","s","s">>>>, content |-> OtherContent(300) ],
      [ path |-> <<<<"R","E","A","D","M","E",".","m","d">>>>, content |-> OtherContent(100) ] }

BaseFileRecords ==
    { [ path |-> base_join(TOP_20_COMPONENTS[i]), content |-> TargetContents[i] ] :
        i \in DOMAIN TOP_20_COMPONENTS }
      \cup OtherSources \cup OtherFiles

BaseTree ==
    LET paths == { r.path : r \in BaseFileRecords }
    IN  [ files |-> [ p \in paths |->
                        (CHOOSE r \in BaseFileRecords : r.path = p).content ],
          dirs |-> UNION { ancestors(p) : p \in paths } ]

EmptyFs == [ files |-> <<>>, dirs |-> {} ]

\* a project just set up: the directories, no file yet
BareTree == [ files |-> <<>>, dirs |-> { <<>>, <<<<"a","p","p">>>>, <<<<"c","o","m","p","o","n","e","n","t","s">>>> } ]

\* Edits of a tree
remove_file(tree, p) ==
    [ tree EXCEPT !.files = [q \in DOMAIN tree.files \ {p} |-> tree.files[q]] ]

remove_tree(tree, d) ==
    [ files |-> [q \in { q \in DOMAIN tree.files : ~ is_prefix(d, q) } |-> tree.files[q]],
      dirs |-> { e \in tree.dirs : ~ is_prefix(d, e) } ]

make_unreadable(tree, p) ==
    IF p \in DOMAIN tree.files
    THEN [ tree EXCEPT !.files[p].readable = FALSE ]
    ELSE tree

add_file(tree, p, c) ==
    IF path_exists(tree, p) \/ \E a \in ancestors(p) : a \in DOMAIN tree.files
    THEN tree
    ELSE [ files |-> [q \in DOMAIN tree.files \cup {p} |->
                         IF q = p THEN c ELSE tree.files[q]],
           dirs |-> tree.dirs \cup ancestors(p) ]

add_dir(tree, d) ==
    IF path_exists(tree, d) \/ \E a \in ancestors(d) : a \in DOMAIN tree.files
    THEN tree
    ELSE [ tree EXCEPT !.dirs = tree.dirs \cup ancestors(d) \cup {d} ]

\* a test written by hand where the scripts expect one
hand_written_test(p) ==
    Append(Append(path_parent(p), <<"_","_","t","e","s","t","s","_","_">>),
           path_stem(p) \o <<".","t","e","s","t">> \o path_suffix(p))

apply_edit(tree, e) ==
    CASE e.op = "remove" -> remove_file(tree, e.path)
      [] e.op = "remove_tree" -> remove_tree(tree, e.path)
      [] e.op = "unreadable" -> make_unreadable(tree, e.path)
      [] e.op = "add_test" -> add_file(tree, hand_written_test(e.path), OtherContent(30))
      [] e.op = "add_file" -> add_file(tree, e.path, OtherContent(15))
      [] e.op = "add_dir" -> add_dir(tree, e.path)

RECURSIVE apply_edits(_, _)
apply_edits(tree, es) ==
    IF es = <<>> THEN tree ELSE apply_edits(apply_edit(tree, Head(es)), Tail(es))

MaxEdits == 1

EditedTrees(bases, edits) ==
    { apply_edits(b, es) :
        b \in bases, es \in UNION { [1..n -> edits] : n \in 0..MaxEdits } }

----------------------------------------------------------------------------
(* Report generator: generate_report of analyze-test-coverage.py *)

OUTPUT_DIR == <<<<"d","o","c","s">>, <<"t","e","s","t","-","c","o","v","e","r","a","g","e">>>>
REPORT_FILE == Append(OUTPUT_DIR, <<"c","o","v","e","r","a","g","e","-","g","a","p","-","a","n","a","l","y","s","i","s",".","m","d">>)

components_dir == <<<<"c","o","m","p","o","n","e","n","t","s">>>>
app_dir == <<<<"a","p","p">>>>
lib_dir == <<<<"l","i","b">>>>
services_dir == <<<<"s","e","r","v","i","c","e","s">>>>

\* Path.mkdir(parents=True, exist_ok=True): fails when the path or one of
\* its ancestors is a regular file
mkdir_parents(tree, d) ==
    IF \E a \in ancestors(d) \cup {d} : a \in DOMAIN tree.files
    THEN [ ok |-> FALSE, tree |-> tree ]
    ELSE [ ok |-> TRUE,
           tree |-> [ tree EXCEPT !.dirs = tree.dirs \cup ancestors(d) \cup {d} ] ]

\* n / d rounded to the nearest integer, halves to the even one, as the
\* format {:.2f} rounds
round_half_even(n, d) ==
    LET q == n \div d
        r == n % d
    IN  IF 2 * r < d THEN q
        ELSE IF 2 * r > d THEN q + 1
        ELSE IF q % 2 = 0 THEN q ELSE q + 1

\* a bug that divides without looking at the denominator
coverage_unguarded(tests, total) ==
    IF total = 0 THEN [ fault |-> TRUE, hundredths |-> 0 ]
    ELSE [ fault |-> FALSE, hundredths |-> round_half_even(tests * 10000, total) ]

\* (tests / total * 100) if total > 0 else 0, as printed with two
\* decimals: the value in hundredths of a percent
coverage(tests, total) ==
    IF total > 0
    THEN [ fault |-> FALSE, hundredths |-> round_half_even(tests * 10000, total) ]
    ELSE [ fault |-> FALSE, hundredths |-> 0 ]

\* lines 121-141: the file counts
count_files(tree) ==
    LET n(d, ext) == Cardinality(rglob_set(tree, d, ext))
        t(d, tail) == Cardinality(rglob_tests(tree, d, tail))
        total_components ==
            (n(components_dir, <<".","t","s","x">>) + n(components_dir, <<".","t","s">>))
                - (t(components_dir, <<".","t","s","x">>) + t(components_dir, <<".","t","s">>))
        total_app == n(app_dir, <<".","t","s","x">>) - t(app_dir, <<".","t","s","x">>)
        total_lib ==
            (IF path_exists(tree, lib_dir) THEN n(lib_dir, <<".","t","s">>) ELSE 0)
                - (IF path_exists(tree, lib_dir) THEN t(lib_dir, <<".","t","s">>) ELSE 0)
        total_services ==
            (IF path_exists(tree, services_dir) THEN n(services_dir, <<".","t","s">>) ELSE 0)
                - (IF path_exists(tree, services_dir) THEN t(services_dir, <<".","t","s">>) ELSE 0)
        total_tests ==
            t(components_dir, <<".","t","e","s","t",".","t","s","x">>) + t(components_dir, <<".","t","e","s","t",".","t","s">>)
        total_app_tests == t(app_dir, <<".","t","e","s","t",".","t","s","x">>)
        total_lib_tests ==
            IF path_exists(tree, lib_dir) THEN t(lib_dir, <<".","t","e","s","t",".","t","s">>) ELSE 0
        total_services_tests ==
            IF path_exists(tree, services_dir) THEN t(services_dir, <<".","t","e","s","t",".","t","s">>) ELSE 0
    IN  [ total_components |-> total_components,
          total_app |-> total_app,
          total_lib |-> total_lib,
          total_services |-> total_services,
          total_tests |-> total_tests,
          total_app_tests |-> total_app_tests,
          total_lib_tests |-> total_lib_tests,
          total_services_tests |-> total_services_tests,
          total_files |-> total_components + total_app + total_lib + total_services,
          total_test_files |->
              total_tests + total_app_tests + total_lib_tests + total_services_tests ]

NoCounts ==
    [ total_components |-> 0, total_app |-> 0, total_lib |-> 0,
      total_services |-> 0, total_tests |-> 0, total_app_tests |-> 0,
      total_lib_tests |-> 0, total_services_tests |-> 0, total_files |-> 0,
      total_test_files |-> 0 ]

\* the category generate_report passes for a directory
category_of(root) ==
    IF root = <<<<"c","o","m","p","o","n","e","n","t","s">>, <<"u","i">>>> THEN <<"U","I"," ","C","o","m","p","o","n","e","n","t","s">>
    ELSE IF root = <<<<"c","o","m","p","o","n","e","n","t","s">>, <<"l","a","y","o","u","t">>>> THEN <<"L","a","y","o","u","t"," ","C","o","m","p","o","n","e","n","t","s">>
    ELSE IF root = <<<<"c","o","m","p","o","n","e","n","t","s">>, <<"s","e","c","t","i","o","n","s">>>> THEN <<"S","e","c","t","i","o","n"," ","C","o","m","p","o","n","e","n","t","s">>
    ELSE IF root = <<<<"c","o","m","p","o","n","e","n","t","s">>, <<"b","r","a","n","d","i","n","g">>>> THEN <<"B","r","a","n","d","i","n","g"," ","C","o","m","p","o","n","e","n","t","s">>
    ELSE IF root = <<<<"c","o","m","p","o","n","e","n","t","s">>, <<"t","u","t","o","r","i","a","l">>>> THEN <<"T","u","t","o","r","i","a","l"," ","C","o","m","p","o","n","e","n","t","s">>
    ELSE IF root = <<<<"c","o","m","p","o","n","e","n","t","s">>, <<"w","e","b","i","n","a","r">>>> THEN <<"W","e","b","i","n","a","r"," ","C","o","m","p","o","n","e","n","t","s">>
    ELSE IF root = <<<<"c","o","m","p","o","n","e","n","t","s">>, <<"a","g","e","n","t","-","s","w","a","r","m">>>> THEN <<"A","g","e","n","t"," ","S","w","a","r","m"," ","C","o","m","p","o","n","e","n","t","s">>
    ELSE IF root = <<<<"c","o","m","p","o","n","e","n","t","s">>, <<"v","i","d","e","o">>>> THEN <<"V","i","d","e","o"," ","C","o","m","p","o","n","e","n","t","s">>
    ELSE IF root = <<<<"c","o","m","p","o","n","e","n","t","s">>, <<"i","n","v","o","i","c","e","s">>>> THEN <<"I","n","v","o","i","c","e"," ","C","o","m","p","o","n","e","n","t","s">>
    ELSE IF root = <<<<"c","o","m","p","o","n","e","n","t","s">>, <<"p","r","o","v","i","d","e","r","s">>>> THEN <<"P","r","o","v","i","d","e","r"," ","C","o","m","p","o","n","e","n","t","s">>
    ELSE IF root = <<<<"s","e","r","v","i","c","e","s">>>> THEN <<"S","e","r","v","i","c","e","s">>
    ELSE IF root = <<<<"l","i","b">>>> THEN <<"L","i","b","r","a","r","y">>
    ELSE IF Len(root) = 2 /\ root[1] = <<"a","p","p">> THEN <<"A","p","p",":"," ">> \o root[2]
    ELSE <<"O","t","h","e","r">>

\* lines 155-164: the component directories, in the order they are scanned
ComponentDirs ==
    << <<<<"c","o","m","p","o","n","e","n","t","s">>, <<"u","i">>>>, <<<<"c","o","m","p","o","n","e","n","t","s">>, <<"l","a","y","o","u","t">>>>, <<<<"c","o","m","p","o","n","e","n","t","s">>, <<"s","e","c","t","i","o","n","s">>>>,
       <<<<"c","o","m","p","o","n","e","n","t","s">>, <<"b","r","a","n","d","i","n","g">>>>, <<<<"c","o","m","p","o","n","e","n","t","s">>, <<"t","u","t","o","r","i","a","l">>>>, <<<<"c","o","m","p","o","n","e","n","t","s">>, <<"w","e","b","i","n","a","r">>>>,
       <<<<"c","o","m","p","o","n","e","n","t","s">>, <<"a","g","e","n","t","-","s","w","a","r","m">>>>, <<<<"c","o","m","p","o","n","e","n","t","s">>, <<"v","i","d","e","o">>>>, <<<<"c","o","m","p","o","n","e","n","t","s">>, <<"i","n","v","o","i","c","e","s">>>>,
       <<<<"c","o","m","p","o","n","e","n","t","s">>, <<"p","r","o","v","i","d","e","r","s">>>> >>

RECURSIVE scan_all(_, _, _)
\* items.extend(analyze_directory(d, category)) for each d of ds
scan_all(tree, ds, order) ==
    IF ds = <<>> THEN <<>>
    ELSE analyze_directory(tree, Head(ds), category_of(Head(ds)), order)
            \o scan_all(tree, Tail(ds), order)

\* app_dir.iterdir(), filtered as in lines 167-168
app_subdirs(tree, order) ==
    in_yield_order(
        { d \in tree.dirs :
            /\ Len(d) = 2 /\ d[1] = <<"a","p","p">>
            /\ d[2] \notin { <<"a","p","i">>, <<"_","_","t","e","s","t","s","_","_">> } },
        order)

\* lines 152-177; iterdir raises when app_dir is no directory
scan_project(tree, order) ==
    IF ~ path_is_dir(tree, app_dir)
    THEN [ ok |-> FALSE, found |-> <<>> ]
    ELSE [ ok |-> TRUE,
           found |->
              scan_all(tree, ComponentDirs, order)
                \o scan_all(tree, app_subdirs(tree, order), order)
                \o (IF path_exists(tree, services_dir)
                    THEN scan_all(tree, <<services_dir>>, order) ELSE <<>>)
                \o (IF path_exists(tree, lib_dir)
                    THEN scan_all(tree, <<lib_dir>>, order) ELSE <<>>) ]

priority_order(p) ==
    CASE p = "Critical" -> 0 [] p = "High" -> 1 [] p = "Medium" -> 2 [] p = "Low" -> 3

complexity_order(c) ==
    CASE c = "High" -> 0 [] c = "Medium" -> 1 [] c = "Low" -> 2

\* a bug that forgets the minus sign: smaller files first
sort_key_lines_ascending(x) ==
    << priority_order(x.priority), complexity_order(x.complexity), x.lines >>

\* the key of line 183
sort_key(x) ==
    << priority_order(x.priority), complexity_order(x.complexity), - x.lines >>

\* Python's  a < b  on tuples of three integers
key_less(a, b) ==
    \/ a[1] < b[1]
    \/ a[1] = b[1] /\ a[2] < b[2]
    \/ a[1] = b[1] /\ a[2] = b[2] /\ a[3] < b[3]

RECURSIVE insert_sorted(_, _)
\* x put after every element whose key is not greater than its own
insert_sorted(s, x) ==
    IF s = <<>> THEN <<x>>
    ELSE IF key_less(sort_key(x), sort_key(Head(s))) THEN <<x>> \o s
    ELSE <<Head(s)>> \o insert_sorted(Tail(s), x)

RECURSIVE list_sort(_)
\* list.sort(key=...): stable
list_sort(s) ==
    IF s = <<>> THEN <<>>
    ELSE insert_sorted(list_sort(SubSeq(s, 1, Len(s) - 1)), s[Len(s)])

RECURSIVE sorted_strs(_)
\* sorted() on a set of strings
sorted_strs(S) ==
    IF S = {} THEN <<>>
    ELSE LET first == CHOOSE a \in S : \A b \in S \ {a} : str_less(a, b)
         IN  <<first>> \o sorted_strs(S \ {first})

\* a bug that puts each item in front of its group
group_by_category_prepend(items) ==
    LET cats == sorted_strs({ items[i].category : i \in DOMAIN items })
        rev == [i \in 1..Len(items) |-> items[Len(items) + 1 - i]]
    IN  [ k \in DOMAIN cats |->
            [ category |-> cats[k],
              items |-> SelectSeq(rev, LAMBDA x : x.category = cats[k]) ] ]

\* lines 229-242: by_category[item['category']].append(item) for each item,
\* then one section per category, categories sorted
group_by_category(items) ==
    LET cats == sorted_strs({ items[i].category : i \in DOMAIN items })
    IN  [ k \in DOMAIN cats |->
            [ category |-> cats[k],
              items |-> SelectSeq(items, LAMBDA x : x.category = cats[k]) ] ]

TopN == 20

\* the reason column of lines 260-268
reason_of(item) ==
    IF str_in(<<"C","l","i","e","n","t">>, item.path) THEN "Client component with state"
    ELSE IF str_in(<<"S","e","r","v","i","c","e">>, item.path) THEN "Service layer with business logic"
    ELSE IF str_in(<<"F","o","r","m">>, item.path) THEN "Form with validation"
    ELSE IF str_in(<<"M","o","d","a","l">>, item.path) \/ str_in(<<"D","i","a","l","o","g">>, item.path)
        THEN "Interactive component"
    ELSE IF item.priority \in { "Critical", "High" } THEN "Business logic"
    ELSE "User interaction"

\* a bug that slices from the second item
top_rows_skip_first(items) ==
    LET n == IF Len(items) - 1 < TopN THEN Len(items) - 1 ELSE TopN
    IN  [ i \in 1..(IF n < 0 THEN 0 ELSE n) |->
            [ n |-> i, item |-> items[i + 1], reason |-> reason_of(items[i + 1]) ] ]

\* lines 259-270: enumerate(items[:20], 1)
top_rows(items) ==
    LET n == IF Len(items) < TopN THEN Len(items) ELSE TopN
    IN  [ i \in 1..n |->
            [ n |-> i, item |-> items[i], reason |-> reason_of(items[i]) ] ]

\* the figures and tables of the report written at lines 186-557
report_of(c, items) ==
    [ overall |-> [ total |-> c.total_files, tests |-> c.total_test_files,
                    pct |-> coverage(c.total_test_files, c.total_files) ],
      gap |-> c.total_files - c.total_test_files,
      components |-> [ total |-> c.total_components, tests |-> c.total_tests,
                       pct |-> coverage(c.total_tests, c.total_components) ],
      app |-> [ total |-> c.total_app, tests |-> c.total_app_tests,
                pct |-> coverage(c.total_app_tests, c.total_app) ],
      services |-> [ total |-> c.total_services, tests |-> c.total_services_tests,
                     pct |-> coverage(c.total_services_tests, c.total_services) ],
      lib |-> [ total |-> c.total_lib, tests |-> c.total_lib_tests,
                pct |-> coverage(c.total_lib_tests, c.total_lib) ],
      sections |-> group_by_category(items),
      top |-> top_rows(items),
      untested_total |-> Len(items) ]

NoReport ==
    LET z == [ total |-> 0, tests |-> 0, pct |-> [ fault |-> FALSE, hundredths |-> 0 ] ]
    IN  [ overall |-> z, gap |-> 0, components |-> z, app |-> z, services |-> z,
          lib |-> z, sections |-> <<>>, top |-> <<>>, untested_total |-> 0 ]

report_faults(r) ==
    \/ r.overall.pct.fault \/ r.components.pct.fault \/ r.app.pct.fault
    \/ r.services.pct.fault \/ r.lib.pct.fault

\* the report file: 331 lines of fixed text, five for the head of each
\* section, one for each table row and each numbered line
ReportContent(r) ==
    [ readable |-> TRUE,
      nlines |-> 331 + 5 * Len(r.sections) + r.untested_total + 2 * Len(r.top),
      kind |-> "report", snippets |-> <<>>,
      component |-> <<>>, sections |-> <<>>, state_tests |-> <<>> ]

\* the report file as a failed run leaves it: opened, nothing written
EmptyContent ==
    [ readable |-> TRUE, nlines |-> 0, kind |-> "report", snippets |-> <<>>,
      component |-> <<>>, sections |-> <<>>, state_tests |-> <<>> ]
----------------------------------------------------------------------------
(* generate-test-template.py: the text of a source file *)

\* the lines of a source file that carry a pattern, by snippet name; the
\* other lines of the file are blank
snippet_text(name) ==
    CASE name = "use_client" -> <<"'","u","s","e"," ","c","l","i","e","n","t","'",";">>
      [] name = "use_client_dq" -> <<"\"">> \o <<"u","s","e"," ","c","l","i","e","n","t">> \o <<"\"", ";">>
      [] name = "state_count" -> <<"c","o","n","s","t"," ","[","c","o","u","n","t",","," ","s","e","t","C","o","u","n","t","]"," ","="," ","u","s","e","S","t","a","t","e","(","0",")",";">>
      [] name = "state_items" -> <<"c","o","n","s","t"," ","[","i","t","e","m","s",",","s","e","t","I","t","e","m","s","]","=","u","s","e","S","t","a","t","e","(","[","]",")",";">>
      [] name = "state_open" -> <<" "," ","c","o","n","s","t"," "," ","[","o","p","e","n",","," "," ","s","e","t","O","p","e","n","]"," "," ","="," "," ","u","s","e","S","t","a","t","e","(","f","a","l","s","e",")",";">>
      [] name = "state_query" -> <<"c","o","n","s","t"," ","[","q","u","e","r","y",","," ","s","e","t","Q","u","e","r","y","]"," ","="," ","u","s","e","S","t","a","t","e","(","'","'",")",";">>
      [] name = "state_page" -> <<"c","o","n","s","t"," ","[","p","a","g","e",","," ","s","e","t","P","a","g","e","]"," ","="," ","u","s","e","S","t","a","t","e","(","1",")",";">>
      [] name = "state_sort" -> <<"c","o","n","s","t"," ","[","s","o","r","t","_","k","e","y","2",","," ","s","e","t","S","o","r","t","K","e","y","2","]"," ","="," ","u","s","e","S","t","a","t","e","(","n","u","l","l",")",";">>
      [] name = "state_other_setter" -> <<"c","o","n","s","t"," ","[","v","a","l","u","e",","," ","u","p","d","a","t","e","V","a","l","u","e","]"," ","="," ","u","s","e","S","t","a","t","e","(","0",")",";">>
      [] name = "async_load" -> <<"c","o","n","s","t"," ","l","o","a","d"," ","="," ","a","s","y","n","c"," ","(",")"," ","=",">"," ","{","}",";">>
      [] name = "form_tag" -> <<"<","f","o","r","m"," ","c","l","a","s","s","N","a","m","e","=","x",">">>
      [] name = "on_submit" -> <<"c","o","n","s","t"," ","o","n","S","u","b","m","i","t"," ","="," ","h","a","n","d","l","e",";">>
      [] name = "fetch_call" -> <<"f","e","t","c","h","(","u","r","l",")",";">>
      [] name = "axios_import" -> <<"i","m","p","o","r","t"," ","a","x","i","o","s"," ","f","r","o","m"," ","'","a","x","i","o","s","'",";">>
      [] name = "get_call" -> <<"c","l","i","e","n","t",".","g","e","t","(","u","r","l",")",";">>
      [] name = "post_call" -> <<"c","l","i","e","n","t",".","p","o","s","t","(","u","r","l",","," ","b","o","d","y",")",";">>
      [] name = "use_mutation" -> <<"c","o","n","s","t"," ","m"," ","="," ","u","s","e","M","u","t","a","t","i","o","n","(","f","n",")",";">>
      [] name = "mutate_call" -> <<"m",".","m","u","t","a","t","e","(","d","a","t","a",")",";">>
      [] name = "on_create" -> <<"o","n","C","r","e","a","t","e","(","i","t","e","m",")",";">>
      [] name = "on_update" -> <<"o","n","U","p","d","a","t","e","(","i","t","e","m",")",";">>
      [] name = "on_delete" -> <<"o","n","D","e","l","e","t","e","(","i","t","e","m",")",";">>
      [] name = "react_import" -> <<"i","m","p","o","r","t"," ","{"," ","u","s","e","S","t","a","t","e"," ","}"," ","f","r","o","m"," ","'","r","e","a","c","t","'",";">>
      [] name = "plain_jsx" -> <<"r","e","t","u","r","n"," ","<","d","i","v",">","t","e","x","t","<","/","d","i","v",">",";">>

RECURSIVE text_of(_)
\* f.read(): the snippet lines, each ended by a newline
text_of(sn) ==
    IF sn = <<>> THEN <<>>
    ELSE snippet_text(Head(sn)) \o <<"\n">> \o text_of(Tail(sn))

----------------------------------------------------------------------------
(* The two regular expressions of analyze_component *)

\* \s and \w
WhiteSpace == { " ", "\n", "\t" }
WordChars ==
    LET w == <<"0","1","2","3","4","5","6","7","8","9","A","B","C","D","E","F","G","H","I","J","K","L","M","N","O","P","Q","R","S","T","U","V","W","X","Y","Z","_","a","b","c","d","e","f","g","h","i","j","k","l","m","n","o","p","q","r","s","t","u","v","w","x","y","z">>
    IN  { w[i] : i \in DOMAIN w }

\* the literal lit stands at position i of s
has_lit(s, i, lit) ==
    /\ i + Len(lit) - 1 <= Len(s)
    /\ \A k \in 1..Len(lit) : s[i + k - 1] = lit[k]

char_at(s, i, c) == i <= Len(s) /\ s[i] = c

\* where a greedy run of characters of class cls that starts at i ends:
\* the first position from i on that holds no character of cls
span_end(s, i, cls) ==
    CHOOSE j \in i..(Len(s) + 1) :
        /\ \A k \in i..(j - 1) : s[k] \in cls
        /\ j = Len(s) + 1 \/ s[j] \notin cls

NoMatch == [ ok |-> FALSE, group |-> <<>>, end |-> 0 ]

\* const\s+\[(\w+),\s*set\w+\]\s*=\s*useState  matched at position i
match_state_hook(s, i) ==
    LET a == i + 5
        b == span_end(s, a, WhiteSpace)
        c == b + 1
        d == span_end(s, c, WordChars)
        e == span_end(s, d + 1, WhiteSpace)
        f == e + 3
        g == span_end(s, f, WordChars)
        h == span_end(s, g + 1, WhiteSpace)
        k == span_end(s, h + 1, WhiteSpace)
    IN  IF /\ has_lit(s, i, <<"c","o","n","s","t">>)
           /\ b > a
           /\ char_at(s, b, "[")
           /\ d > c
           /\ char_at(s, d, ",")
           /\ has_lit(s, e, <<"s","e","t">>)
           /\ g > f
           /\ char_at(s, g, "]")
           /\ char_at(s, h, "=")
           /\ has_lit(s, k, <<"u","s","e","S","t","a","t","e">>)
        THEN [ ok |-> TRUE, group |-> SubSeq(s, c, d - 1), end |-> k + 8 ]
        ELSE NoMatch

\* const\s+(\w+)\s*=\s*async\s*\(  matched at position i
match_async_func(s, i) ==
    LET a == i + 5
        b == span_end(s, a, WhiteSpace)
        c == span_end(s, b, WordChars)
        d == span_end(s, c, WhiteSpace)
        e == span_end(s, d + 1, WhiteSpace)
        f == span_end(s, e + 5, WhiteSpace)
    IN  IF /\ has_lit(s, i, <<"c","o","n","s","t">>)
           /\ b > a
           /\ c > b
           /\ char_at(s, d, "=")
           /\ has_lit(s, e, <<"a","s","y","n","c">>)
           /\ char_at(s, f, "(")
        THEN [ ok |-> TRUE, group |-> SubSeq(s, b, c - 1), end |-> f + 1 ]
        ELSE NoMatch

RECURSIVE findall_state_hooks(_, _)
\* re.findall from position i on: the groups of the matches, left to right,
\* not overlapping (the search goes on where the match before ended)
findall_state_hooks(s, i) ==
    LET starts == { j \in i..Len(s) : match_state_hook(s, j).ok }
    IN  IF starts = {} THEN <<>>
        ELSE LET m == match_state_hook(s, CHOOSE j \in starts : \A k \in starts : j <= k)
             IN  << m.group >> \o findall_state_hooks(s, m.end)

RECURSIVE findall_async_funcs(_, _)
findall_async_funcs(s, i) ==
    LET starts == { j \in i..Len(s) : match_async_func(s, j).ok }
    IN  IF starts = {} THEN <<>>
        ELSE LET m == match_async_func(s, CHOOSE j \in starts : \A k \in starts : j <= k)
             IN  << m.group >> \o findall_async_funcs(s, m.end)

\* seq[:n]
first_n(seq, n) == SubSeq(seq, 1, IF Len(seq) < n THEN Len(seq) ELSE n)

----------------------------------------------------------------------------
(* analyze_component, generate_test_template, create_test_file *)

None == [ none |-> TRUE ]

\* analyze_component(file_path): None when the file cannot be opened or read
analyze_component(tree, file_path) ==
    IF file_path \notin DOMAIN tree.files \/ ~ tree.files[file_path].readable
    THEN None
    ELSE LET content == text_of(tree.files[file_path].snippets)
         IN  [ component_name |-> path_stem(file_path),
               is_client |-> \/ str_in(<<"'","u","s","e"," ","c","l","i","e","n","t","'">>, content)
                             \/ str_in(<<"\"">> \o <<"u","s","e"," ","c","l","i","e","n","t">> \o <<"\"">>, content),
               state_hooks |-> first_n(findall_state_hooks(content, 1), 5),
               async_funcs |-> first_n(findall_async_funcs(content, 1), 5),
               has_form |-> \/ str_in(<<"o","n","S","u","b","m","i","t">>, content)
                            \/ str_in(<<"<","f","o","r","m">>, content),
               api_calls |-> \/ str_in(<<"f","e","t","c","h","(">>, content)
                             \/ str_in(<<"a","x","i","o","s">>, content)
                             \/ str_in(<<".","g","e","t","(">>, content)
                             \/ str_in(<<".","p","o","s","t","(">>, content),
               has_mutations |-> \E word \in { <<"u","s","e","M","u","t","a","t","i","o","n">>, <<"m","u","t","a","t","e">>, <<"o","n","C","r","e","a","t","e">>,
                                               <<"o","n","U","p","d","a","t","e">>, <<"o","n","D","e","l","e","t","e">> } :
                                    str_in(word, content) ]

\* as template_sections, the mutations block hanging on the network signal
template_sections_mutations_on_api(info_) ==
    << "Rendering" >>
    \o (IF info_.state_hooks # <<>> THEN << "State Management" >> ELSE <<>>)
    \o (IF info_.has_form THEN << "Form Handling" >> ELSE <<>>)
    \o (IF info_.api_calls THEN << "API Integration" >> ELSE <<>>)
    \o (IF info_.api_calls THEN << "Data Mutations" >> ELSE <<>>)
    \o << "User Interactions", "Accessibility", "Error Handling", "Edge Cases" >>

\* the describe blocks of the skeleton, in the order the template appends
\* them, and the number of lines of the text
template_sections(info_) ==
    << "Rendering" >>
    \o (IF info_.state_hooks # <<>> THEN << "State Management" >> ELSE <<>>)
    \o (IF info_.has_form THEN << "Form Handling" >> ELSE <<>>)
    \o (IF info_.api_calls THEN << "API Integration" >> ELSE <<>>)
    \o (IF info_.has_mutations THEN << "Data Mutations" >> ELSE <<>>)
    \o << "User Interactions", "Accessibility", "Error Handling", "Edge Cases" >>

template_lines(info_) ==
    199 + (IF info_.state_hooks # <<>>
           THEN 3 + 11 * Len(first_n(info_.state_hooks, 3)) ELSE 0)
        + (IF info_.has_form THEN 46 ELSE 0)
        + (IF info_.api_calls THEN 47 ELSE 0)
        + (IF info_.has_mutations THEN 50 ELSE 0)

\* generate_test_template(component_path, info): the text of the skeleton,
\* as the imported component, its describe blocks and its state tests
generate_test_template(component_path, info_) ==
    [ readable |-> TRUE, nlines |-> template_lines(info_), kind |-> "skeleton",
      snippets |-> <<>>, component |-> info_.component_name,
      sections |-> template_sections(info_),
      state_tests |-> first_n(info_.state_hooks, 3) ]

\* Path.mkdir(exist_ok=True) of a directory whose parent exists
mkdir_exist_ok(tree, d) ==
    IF d \in DOMAIN tree.files THEN [ ok |-> FALSE, tree |-> tree ]
    ELSE [ ok |-> TRUE, tree |-> [ tree EXCEPT !.dirs = tree.dirs \cup {d} ] ]

\* as create_test_file, without the test of lines 497-499
create_test_file_overwrite(tree, component_path_str) ==
    LET component_path == base_join(component_path_str)
        info_ == analyze_component(tree, component_path)
        test_dir == Append(path_parent(component_path), <<"_","_","t","e","s","t","s","_","_">>)
        made == mkdir_exist_ok(tree, test_dir)
        test_file_path ==
            Append(test_dir, path_stem(component_path) \o <<".","t","e","s","t">>
                               \o path_suffix(component_path))
    IN  IF ~ path_exists(tree, component_path)
        THEN [ returned |-> "False", message |-> "Component not found", tree |-> tree ]
        ELSE IF info_ = None
        THEN [ returned |-> "False", message |-> "Error analyzing", tree |-> tree ]
        ELSE IF ~ made.ok
        THEN [ returned |-> "raised", message |-> "FileExistsError", tree |-> tree ]
        ELSE [ returned |-> "True", message |-> "Created test file",
               tree |-> write_file(made.tree, test_file_path,
                                   generate_test_template(component_path, info_)) ]

\* as create_test_file, the skeleton named <stem>.test.ts whatever the
\* extension of the component
create_test_file_ts_name(tree, component_path_str) ==
    LET component_path == base_join(component_path_str)
        info_ == analyze_component(tree, component_path)
        test_dir == Append(path_parent(component_path), <<"_","_","t","e","s","t","s","_","_">>)
        made == mkdir_exist_ok(tree, test_dir)
        test_file_path == Append(test_dir, path_stem(component_path) \o <<".","t","e","s","t",".","t","s">>)
    IN  IF ~ path_exists(tree, component_path)
        THEN [ returned |-> "False", message |-> "Component not found", tree |-> tree ]
        ELSE IF info_ = None
        THEN [ returned |-> "False", message |-> "Error analyzing", tree |-> tree ]
        ELSE IF ~ made.ok
        THEN [ returned |-> "raised", message |-> "FileExistsError", tree |-> tree ]
        ELSE IF path_exists(made.tree, test_file_path)
        THEN [ returned |-> "False", message |-> "Test file already exists",
               tree |-> made.tree ]
        ELSE [ returned |-> "True", message |-> "Created test file",
               tree |-> write_file(made.tree, test_file_path,
                                   generate_test_template(component_path, info_)) ]

\* create_test_file(component_path_str): what it returns ("raised" when an
\* exception leaves it), what it prints, and the file system it leaves
create_test_file(tree, component_path_str) ==
    LET component_path == base_join(component_path_str)
        info_ == analyze_component(tree, component_path)
        test_dir == Append(path_parent(component_path), <<"_","_","t","e","s","t","s","_","_">>)
        made == mkdir_exist_ok(tree, test_dir)
        test_file_path ==
            Append(test_dir, path_stem(component_path) \o <<".","t","e","s","t">>
                               \o path_suffix(component_path))
    IN  IF ~ path_exists(tree, component_path)
        THEN [ returned |-> "False", message |-> "Component not found", tree |-> tree ]
        ELSE IF info_ = None
        THEN [ returned |-> "False", message |-> "Error analyzing", tree |-> tree ]
        ELSE IF ~ made.ok
        THEN [ returned |-> "raised", message |-> "FileExistsError", tree |-> tree ]
        ELSE IF path_exists(made.tree, test_file_path)
        THEN [ returned |-> "False", message |-> "Test file already exists",
               tree |-> made.tree ]
        ELSE [ returned |-> "True", message |-> "Created test file",
               tree |-> write_file(made.tree, test_file_path,
                                   generate_test_template(component_path, info_)) ]

NoSkeleton == [ readable |-> FALSE, nlines |-> 0, kind |-> "none", snippets |-> <<>>,
                component |-> <<>>, sections |-> <<>>, state_tests |-> <<>> ]

InitTemplateIdle == info = None /\ skeleton = NoSkeleton
InitMainIdle ==
    /\ run = 0 /\ idx = 0 /\ created = 0 /\ skipped = 0 /\ errors = 0
    /\ fsRunStart = EmptyFs
    /\ log = <<>>

----------------------------------------------------------------------------
(* Specifications of the classifier *)

InitReportIdle ==
    counts = NoCounts /\ scanned = <<>> /\ untested = <<>> /\ report = NoReport

InitFsIdle == fs = EmptyFs /\ dirOrder = "ascending"
InitScanIdle == scanRoot = <<>> /\ results = <<>>

\* the call complexity = get_complexity(lines)
GetComplexity ==
    /\ pc = "start"
    /\ complexity' = get_complexity(lines)
    /\ pc' = "done"
    /\ UNCHANGED <<lines, filename, filepath, priority>>
    /\ UNCHANGED <<varsFs, varsScan, varsReport, varsTemplate, varsMain>>

\* the call priority = get_priority(file_path.stem, file_path)
GetPriority ==
    /\ pc = "start"
    /\ priority' = get_priority(filename, filepath)
    /\ pc' = "done"
    /\ UNCHANGED <<lines, complexity, filename, filepath>>
    /\ UNCHANGED <<varsFs, varsScan, varsReport, varsTemplate, varsMain>>

InitComplexity ==
    /\ lines \in 0..MaxLines
    /\ complexity = "unset"
    /\ filename = <<>>
    /\ filepath = <<>>
    /\ priority = "unset"
    /\ pc = "start"
    /\ InitFsIdle /\ InitScanIdle /\ InitReportIdle /\ InitTemplateIdle /\ InitMainIdle

InitPriority ==
    /\ lines = 0
    /\ complexity = "unset"
    /\ filename \in SampleStems
    /\ \E d \in SampleDirs : filepath = Append(d.dir, filename \o d.ext)
    /\ priority = "unset"
    /\ pc = "start"
    /\ InitFsIdle /\ InitScanIdle /\ InitReportIdle /\ InitTemplateIdle /\ InitMainIdle

SpecComplexity == InitComplexity /\ [][GetComplexity]_vars
SpecPriority == InitPriority /\ [][GetPriority]_vars

----------------------------------------------------------------------------
(* Specification of the scanner: one call of analyze_directory *)

InitClassifierIdle ==
    /\ lines = 0
    /\ complexity = "unset"
    /\ filename = <<>>
    /\ filepath = <<>>
    /\ priority = "unset"

ScanEdits ==
    { [ op |-> "remove", path |-> <<<<"c","o","m","p","o","n","e","n","t","s">>, <<"u","i">>, <<"B","u","t","t","o","n",".","t","s","x">>>> ],
      [ op |-> "remove", path |-> <<<<"c","o","m","p","o","n","e","n","t","s">>, <<"l","a","y","o","u","t">>, <<"_","_","t","e","s","t","s","_","_">>, <<"H","e","a","d","e","r",".","t","e","s","t",".","t","s","x">>>> ],
      [ op |-> "add_test", path |-> <<<<"c","o","m","p","o","n","e","n","t","s">>, <<"u","i">>, <<"B","u","t","t","o","n",".","t","s","x">>>> ],
      [ op |-> "add_test", path |-> <<<<"c","o","m","p","o","n","e","n","t","s">>, <<"u","i">>, <<"t","y","p","e","s",".","t","s">>>> ],
      [ op |-> "add_test", path |-> <<<<"a","p","p">>, <<"d","e","v","-","r","e","s","o","u","r","c","e","s">>, <<"D","e","v","R","e","s","o","u","r","c","e","s","C","l","i","e","n","t",".","t","s","x">>>> ],
      [ op |-> "unreadable", path |-> <<<<"c","o","m","p","o","n","e","n","t","s">>, <<"u","i">>, <<"A","u","t","h","M","o","d","a","l",".","t","s","x">>>> ],
      [ op |-> "unreadable", path |-> <<<<"l","i","b">>, <<"u","t","i","l","s",".","t","s">>>> ],
      [ op |-> "remove_tree", path |-> <<<<"c","o","m","p","o","n","e","n","t","s">>, <<"u","i">>>> ],
      [ op |-> "remove_tree", path |-> <<<<"l","i","b">>>> ],
      [ op |-> "add_file", path |-> <<<<"c","o","m","p","o","n","e","n","t","s">>, <<"u","i">>, <<"_","_","t","e","s","t","s","_","_">>, <<"O","r","p","h","a","n",".","t","e","s","t",".","t","s","x">>>> ],
      [ op |-> "add_file", path |-> <<<<"c","o","m","p","o","n","e","n","t","s">>, <<"u","i">>, <<"_","_","t","e","s","t","s","_","_">>, <<"B","u","t","t","o","n",".","t","e","s","t",".","t","s">>>> ],
      [ op |-> "add_file", path |-> <<<<"c","o","m","p","o","n","e","n","t","s">>, <<"u","i">>, <<"B","u","t","t","o","n",".","t","e","s","t",".","t","s","x">>>> ],
      [ op |-> "add_file", path |-> <<<<"l","i","b">>, <<"u","t","i","l","s",".","t","e","s","t",".","t","s">>>> ],
      [ op |-> "add_dir", path |-> <<<<"c","o","m","p","o","n","e","n","t","s">>, <<"u","i">>, <<"i","c","o","n","s",".","t","s">>>> ],
      [ op |-> "add_dir", path |-> <<<<"c","o","m","p","o","n","e","n","t","s">>, <<"w","e","b","i","n","a","r">>>> ] }

InitScan ==
    /\ InitClassifierIdle
    /\ fs \in EditedTrees({BaseTree}, ScanEdits)
    /\ dirOrder \in ListingOrders
    /\ pc = "start"
    /\ InitScanIdle /\ InitReportIdle /\ InitTemplateIdle /\ InitMainIdle

\* results = analyze_directory(directory, category), for a directory of
\* the tree or one that does not exist
AnalyzeDirectory ==
    /\ pc = "start"
    /\ \E root \in (fs.dirs \ {<<>>}) \cup { <<<<"c","o","m","p","o","n","e","n","t","s">>, <<"t","u","t","o","r","i","a","l">>>> } :
          /\ scanRoot' = root
          /\ results' = analyze_directory(fs, root, category_of(root), dirOrder)
    /\ pc' = "done"
    /\ UNCHANGED <<varsTemplate, varsMain, varsClassifier, varsFs, varsReport>>

SpecScan == InitScan /\ [][AnalyzeDirectory]_vars

----------------------------------------------------------------------------
(* Specification of the report generator: one run of generate_report *)

ReportEdits ==
    { [ op |-> "remove_tree", path |-> <<<<"l","i","b">>>> ],
      [ op |-> "remove_tree", path |-> <<<<"s","e","r","v","i","c","e","s">>>> ],
      [ op |-> "remove_tree", path |-> <<<<"a","p","p">>>> ],
      [ op |-> "remove_tree", path |-> <<<<"a","p","p">>, <<"d","a","s","h","b","o","a","r","d">>>> ],
      [ op |-> "remove_tree", path |-> <<<<"c","o","m","p","o","n","e","n","t","s">>>> ],
      [ op |-> "remove", path |-> <<<<"c","o","m","p","o","n","e","n","t","s">>, <<"l","a","y","o","u","t">>, <<"_","_","t","e","s","t","s","_","_">>, <<"H","e","a","d","e","r",".","t","e","s","t",".","t","s","x">>>> ],
      [ op |-> "add_test", path |-> <<<<"c","o","m","p","o","n","e","n","t","s">>, <<"u","i">>, <<"B","u","t","t","o","n",".","t","s","x">>>> ],
      [ op |-> "add_test", path |-> <<<<"a","p","p">>, <<"d","e","v","-","r","e","s","o","u","r","c","e","s">>, <<"D","e","v","R","e","s","o","u","r","c","e","s","C","l","i","e","n","t",".","t","s","x">>>> ],
      [ op |-> "unreadable", path |-> <<<<"c","o","m","p","o","n","e","n","t","s">>, <<"u","i">>, <<"A","u","t","h","M","o","d","a","l",".","t","s","x">>>> ],
      [ op |-> "add_file", path |-> <<<<"l","i","b">>, <<"c","o","n","f","i","g">>, <<"_","_","t","e","s","t","s","_","_">>, <<"l","i","m","i","t","s",".","t","e","s","t",".","t","s">>>> ],
      [ op |-> "add_file", path |-> <<<<"a","p","p">>, <<"b","l","o","g">>, <<"P","o","s","t","P","a","g","e",".","t","s","x">>>> ],
      [ op |-> "add_file", path |-> <<<<"c","o","m","p","o","n","e","n","t","s">>, <<"u","i">>, <<"S","p","i","n","n","e","r",".","t","s","x">>>> ],
      [ op |-> "add_file", path |-> <<<<"d","o","c","s">>, <<"t","e","s","t","-","c","o","v","e","r","a","g","e">>>> ],
      [ op |-> "add_dir", path |-> <<<<"d","o","c","s">>, <<"t","e","s","t","-","c","o","v","e","r","a","g","e">>>> ],
      [ op |-> "add_dir", path |-> <<<<"s","e","r","v","i","c","e","s">>>> ] }

InitReport ==
    /\ InitClassifierIdle
    /\ fs \in EditedTrees({BaseTree, BareTree}, ReportEdits)
    /\ dirOrder \in ListingOrders
    /\ pc = "start"
    /\ InitScanIdle /\ InitReportIdle /\ InitTemplateIdle /\ InitMainIdle

\* line 111: OUTPUT_DIR.mkdir(parents=True, exist_ok=True)
ReportMkdir ==
    /\ pc = "start"
    /\ LET r == mkdir_parents(fs, OUTPUT_DIR)
       IN  /\ fs' = r.tree
           /\ pc' = IF r.ok THEN "mkdir_done" ELSE "aborted"
    /\ UNCHANGED <<varsTemplate, varsMain, varsClassifier, dirOrder, varsScan, varsReport>>

\* lines 116-147: the counts and the overall percentage
ReportCount ==
    /\ pc = "mkdir_done"
    /\ counts' = count_files(fs)
    /\ pc' = IF coverage(counts'.total_test_files, counts'.total_files).fault
             THEN "ZeroDivisionError" ELSE "counted"
    /\ UNCHANGED <<varsTemplate, varsMain, varsClassifier, varsFs, varsScan, scanned, untested, report>>

\* lines 150-177: the scans
ReportScan ==
    /\ pc = "counted"
    /\ LET r == scan_project(fs, dirOrder)
       IN  /\ untested' = r.found
           /\ pc' = IF r.ok THEN "scanned" ELSE "FileNotFoundError"
    /\ UNCHANGED <<varsTemplate, varsMain, varsClassifier, varsFs, varsScan, counts, scanned, report>>

\* lines 179-183: the sort, in place
ReportSort ==
    /\ pc = "scanned"
    /\ scanned' = untested
    /\ untested' = list_sort(untested)
    /\ pc' = "sorted"
    /\ UNCHANGED <<varsTemplate, varsMain, varsClassifier, varsFs, varsScan, counts, report>>

\* lines 185-557: the report file
ReportWrite ==
    /\ pc = "sorted"
    /\ LET r == report_of(counts, untested)
       IN  IF REPORT_FILE \in fs.dirs
           THEN pc' = "IsADirectoryError" /\ UNCHANGED <<fs, report>>
           ELSE IF report_faults(r)
           THEN /\ pc' = "ZeroDivisionError"
                /\ fs' = write_file(fs, REPORT_FILE, EmptyContent)
                /\ UNCHANGED report
           ELSE /\ pc' = "written"
                /\ fs' = write_file(fs, REPORT_FILE, ReportContent(r))
                /\ report' = r
    /\ UNCHANGED <<varsTemplate, varsMain, varsClassifier, dirOrder, varsScan, counts, scanned, untested>>

NextReport ==
    ReportMkdir \/ ReportCount \/ ReportScan \/ ReportSort \/ ReportWrite

SpecReport == InitReport /\ [][NextReport]_vars
----------------------------------------------------------------------------
(* Specification of the template: analyze_component on one source file,   *)
(* then generate_test_template on what it returned                        *)

\* the snippets the source file is made of
TemplateSnippets ==
    << "use_client_dq", "state_count", "state_items", "state_other_setter",
       "async_load", "form_tag", "on_submit", "fetch_call", "get_call",
       "use_mutation", "on_delete", "react_import" >>

MaxSnippets == 4

\* the snippets of pool at the indices ix, in the order of the pool
pick(pool, ix) ==
    [ k \in 1..Cardinality(ix) |->
        pool[CHOOSE i \in ix : Cardinality({ j \in ix : j < i }) = k - 1] ]

TemplateSources ==
    { pick(TemplateSnippets, ix) :
        ix \in { x \in SUBSET DOMAIN TemplateSnippets : Cardinality(x) <= MaxSnippets } }

TemplateTargets == { TOP_20_COMPONENTS[2], TOP_20_COMPONENTS[4] }

\* the file of the component under analysis: the one source file of fs
component_file == CHOOSE p \in DOMAIN fs.files : TRUE

InitTemplate ==
    /\ InitClassifierIdle /\ InitScanIdle /\ InitReportIdle /\ InitMainIdle
    /\ \E t \in TemplateTargets, sn \in TemplateSources, r \in BOOLEAN :
          /\ r \/ sn = <<>>
          /\ LET tree == add_file(EmptyFs, base_join(t), SourceContent(40, sn))
             IN  fs = IF r THEN tree ELSE make_unreadable(tree, base_join(t))
    /\ dirOrder = "ascending"
    /\ InitTemplateIdle
    /\ pc = "start"

\* info = analyze_component(component_path)
AnalyzeComponent ==
    /\ pc = "start"
    /\ info' = analyze_component(fs, component_file)
    /\ pc' = IF info' = None THEN "no_info" ELSE "analyzed"
    /\ UNCHANGED <<varsClassifier, varsFs, varsScan, varsReport, skeleton, varsMain>>

\* test_content = generate_test_template(component_path, info)
GenerateTestTemplate ==
    /\ pc = "analyzed"
    /\ skeleton' = generate_test_template(component_file, info)
    /\ pc' = "generated"
    /\ UNCHANGED <<varsClassifier, varsFs, varsScan, varsReport, info, varsMain>>

NextTemplate == AnalyzeComponent \/ GenerateTestTemplate

SpecTemplate == InitTemplate /\ [][NextTemplate]_vars

----------------------------------------------------------------------------
(* Specification of the synthesizer: main, run MaxRuns times in a row *)

MaxRuns == 2

MainEdits ==
    { [ op |-> "remove", path |-> <<<<"a","p","p">>, <<"d","e","v","-","r","e","s","o","u","r","c","e","s">>, <<"D","e","v","R","e","s","o","u","r","c","e","s","C","l","i","e","n","t",".","t","s","x">>>> ],
      [ op |-> "remove", path |-> <<<<"s","e","r","v","i","c","e","s">>, <<"Q","N","N","A","p","i","C","l","i","e","n","t",".","t","s">>>> ],
      [ op |-> "remove", path |-> <<<<"a","p","p">>, <<"d","a","s","h","b","o","a","r","d">>, <<"a","g","e","n","t","s">>, <<"_","_","t","e","s","t","s","_","_">>, <<"A","g","e","n","t","s","C","l","i","e","n","t",".","t","e","s","t",".","t","s","x">>>> ],
      [ op |-> "remove_tree", path |-> <<<<"a","p","p">>, <<"d","a","s","h","b","o","a","r","d">>>> ],
      [ op |-> "unreadable", path |-> <<<<"a","p","p">>, <<"a","i","-","k","i","t">>, <<"A","I","K","i","t","C","l","i","e","n","t",".","t","s","x">>>> ],
      [ op |-> "unreadable", path |-> <<<<"a","p","p">>, <<"a","g","e","n","t","-","s","w","a","r","m">>, <<"A","g","e","n","t","S","w","a","r","m","C","l","i","e","n","t",".","t","s","x">>>> ],
      [ op |-> "add_test", path |-> <<<<"a","p","p">>, <<"d","e","v","-","r","e","s","o","u","r","c","e","s">>, <<"D","e","v","R","e","s","o","u","r","c","e","s","C","l","i","e","n","t",".","t","s","x">>>> ],
      [ op |-> "add_test", path |-> <<<<"s","e","r","v","i","c","e","s">>, <<"Q","N","N","A","p","i","C","l","i","e","n","t",".","t","s">>>> ],
      [ op |-> "add_test", path |-> <<<<"a","p","p">>, <<"a","i","-","k","i","t">>, <<"A","I","K","i","t","C","l","i","e","n","t",".","t","s","x">>>> ],
      [ op |-> "add_file", path |-> <<<<"a","p","p">>, <<"e","x","a","m","p","l","e","s">>, <<"_","_","t","e","s","t","s","_","_">>>> ],
      [ op |-> "add_file", path |-> <<<<"s","e","r","v","i","c","e","s">>, <<"_","_","t","e","s","t","s","_","_">>, <<"Q","N","N","A","p","i","C","l","i","e","n","t",".","t","e","s","t",".","t","s","x">>>> ],
      [ op |-> "add_dir", path |-> <<<<"a","p","p">>, <<"i","n","t","e","g","r","a","t","i","o","n","s">>, <<"_","_","t","e","s","t","s","_","_">>>> ],
      [ op |-> "add_dir", path |-> <<<<"a","p","p">>, <<"d","e","m","o">>, <<"p","r","o","g","r","e","s","s","-","i","n","d","i","c","a","t","o","r","s">>, <<"_","_","t","e","s","t","s","_","_">>, <<"P","r","o","g","r","e","s","s","I","n","d","i","c","a","t","o","r","s","D","e","m","o","C","l","i","e","n","t",".","t","e","s","t",".","t","s","x">>>> ] }

InitMain ==
    /\ InitClassifierIdle /\ InitScanIdle /\ InitReportIdle /\ InitTemplateIdle
    /\ fs \in EditedTrees({BaseTree}, MainEdits)
    /\ dirOrder = "ascending"
    /\ run = 1 /\ idx = 0 /\ created = 0 /\ skipped = 0 /\ errors = 0
    /\ fsRunStart = fs
    /\ log = <<>>
    /\ pc = "main"

\* which counter main adds to for what create_test_file returned
counter_of(returned) ==
    CASE returned = "True" -> "created"
      [] returned = "False" -> "skipped"
      [] returned = "raised" -> "errors"

\* as MainLoop, without the try/except of lines 521-528: an exception that
\* leaves create_test_file leaves main too
MainLoop_uncaught ==
    /\ pc = "main"
    /\ idx < Len(TOP_20_COMPONENTS)
    /\ LET r == create_test_file(fs, TOP_20_COMPONENTS[idx + 1])
       IN  IF r.returned = "raised"
           THEN /\ pc' = "Traceback"
                /\ UNCHANGED <<fs, created, skipped, errors, idx, log>>
           ELSE /\ fs' = r.tree
                /\ created' = IF r.returned = "True" THEN created + 1 ELSE created
                /\ skipped' = IF r.returned = "False" THEN skipped + 1 ELSE skipped
                /\ errors' = errors
                /\ log' = Append(log, [ target |-> TOP_20_COMPONENTS[idx + 1],
                                        returned |-> r.returned, message |-> r.message,
                                        counted |-> counter_of(r.returned) ])
                /\ idx' = idx + 1
                /\ pc' = pc
    /\ UNCHANGED <<varsClassifier, dirOrder, varsScan, varsReport, varsTemplate,
                   run, fsRunStart>>

\* as MainLoop, the except clause counting nothing
MainLoop_except_pass ==
    /\ pc = "main"
    /\ idx < Len(TOP_20_COMPONENTS)
    /\ LET r == create_test_file(fs, TOP_20_COMPONENTS[idx + 1])
       IN  /\ fs' = r.tree
           /\ created' = IF r.returned = "True" THEN created + 1 ELSE created
           /\ skipped' = IF r.returned = "False" THEN skipped + 1 ELSE skipped
           /\ errors' = errors
           /\ log' = Append(log, [ target |-> TOP_20_COMPONENTS[idx + 1],
                                   returned |-> r.returned, message |-> r.message,
                                   counted |-> counter_of(r.returned) ])
    /\ idx' = idx + 1
    /\ UNCHANGED <<varsClassifier, dirOrder, varsScan, varsReport, varsTemplate,
                   run, fsRunStart, pc>>

\* one turn of the loop of main: the line "[i/20] Processing", then
\* create_test_file on the next component, and the counter its outcome adds to
MainLoop ==
    /\ pc = "main"
    /\ idx < Len(TOP_20_COMPONENTS)
    /\ LET r == create_test_file(fs, TOP_20_COMPONENTS[idx + 1])
       IN  /\ fs' = r.tree
           /\ created' = IF r.returned = "True" THEN created + 1 ELSE created
           /\ skipped' = IF r.returned = "False" THEN skipped + 1 ELSE skipped
           /\ errors' = IF r.returned = "raised" THEN errors + 1 ELSE errors
           /\ log' = Append(log, [ target |-> TOP_20_COMPONENTS[idx + 1],
                                   returned |-> r.returned, message |-> r.message,
                                   counted |-> counter_of(r.returned) ])
    /\ idx' = idx + 1
    /\ UNCHANGED <<varsClassifier, dirOrder, varsScan, varsReport, varsTemplate,
                   run, fsRunStart, pc>>

\* the loop is over: main prints the summary and returns
MainSummary ==
    /\ pc = "main"
    /\ idx = Len(TOP_20_COMPONENTS)
    /\ pc' = "summary"
    /\ UNCHANGED <<varsClassifier, varsFs, varsScan, varsReport, varsTemplate, varsMain>>

\* the script is run again right after
MainAgain ==
    /\ pc = "summary"
    /\ run < MaxRuns
    /\ run' = run + 1
    /\ idx' = 0 /\ created' = 0 /\ skipped' = 0 /\ errors' = 0
    /\ fsRunStart' = fs
    /\ log' = <<>>
    /\ pc' = "main"
    /\ UNCHANGED <<varsClassifier, varsFs, varsScan, varsReport, varsTemplate>>

NextMain == MainLoop \/ MainSummary \/ MainAgain

SpecMain == InitMain /\ [][NextMain]_vars

\* main is one thread that runs on: while it is in the loop the next turn
\* is taken, and after the last turn it prints the summary
MainTurn == pc = "main" /\ idx < Len(TOP_20_COMPONENTS) /\ idx' = idx + 1
MainReturn == pc = "main" /\ idx = Len(TOP_20_COMPONENTS) /\ pc' = "summary"

SpecMainFair == SpecMain /\ WF_idx(MainTurn) /\ WF_pc(MainReturn)

----------------------------------------------------------------------------
(* Specification of the two scripts one after the other: a run of main,   *)
(* then analyze_directory on a directory of the tree main left            *)

\* the directories of the tree that one of TOP_20_COMPONENTS lies under
ComponentRoots(tree) ==
    { d \in tree.dirs \ {<<>>} :
        \E i \in DOMAIN TOP_20_COMPONENTS : is_prefix(d, base_join(TOP_20_COMPONENTS[i])) }

\* results = analyze_directory(directory, category) after main has returned,
\* for a directory that holds one of the components
AnalyzeAfterMain ==
    /\ pc = "summary"
    /\ \E root \in ComponentRoots(fs) :
          /\ scanRoot' = root
          /\ results' = analyze_directory(fs, root, category_of(root), dirOrder)
    /\ pc' = "done"
    /\ UNCHANGED <<varsClassifier, varsFs, varsReport, varsTemplate, varsMain>>

NextPipeline == MainLoop \/ MainSummary \/ AnalyzeAfterMain

SpecPipeline == InitMain /\ [][NextPipeline]_vars

----------------------------------------------------------------------------
(* Claims about the classifier *)

\* C1: for every line count L >= 0, get_complexity(L) is High exactly when
\* L > 300, Medium exactly when 150 < L <= 300 and Low exactly when L <= 150
\* (so 150 -> Low, 151 -> Medium, 300 -> Medium, 301 -> High).
C1_ComplexityThresholds ==
    pc = "done" /\ complexity # "unset" =>
        /\ complexity \in { "High", "Medium", "Low" }
        /\ (complexity = "High") <=> (lines > 300)
        /\ (complexity = "Medium") <=> (150 < lines /\ lines <= 300)
        /\ (complexity = "Low") <=> (lines <= 150)
        /\ lines = 150 => complexity = "Low"
        /\ lines = 151 => complexity = "Medium"
        /\ lines = 300 => complexity = "Medium"
        /\ lines = 301 => complexity = "High"

C1_Witness == pc = "done" /\ lines = 300 /\ complexity = "Medium"

\* s contains p, ignoring case
contains_ignoring_case(p, s) ==
    \E i \in 0..(Len(s) - Len(p)) :
        \A k \in 1..Len(p) : lower_char[s[i + k]] = lower_char[p[k]]

CriticalSubstrings ==
    { <<"C","l","i","e","n","t">>, <<"P","a","g","e">>, <<"F","o","r","m">>, <<"M","o","d","a","l">>, <<"D","i","a","l","o","g">>, <<"A","u","t","h">>, <<"P","a","y","m","e","n","t">>,
      <<"C","h","e","c","k","o","u","t">>, <<"D","a","s","h","b","o","a","r","d">>, <<"S","e","r","v","i","c","e">>, <<"P","r","o","v","i","d","e","r">>, <<"H","o","o","k">> }

MediumSubstrings ==
    { <<"S","e","t","t","i","n","g","s">>, <<"P","r","o","f","i","l","e">>, <<"M","a","n","a","g","e","m","e","n","t">>, <<"E","d","i","t","o","r">>, <<"T","a","b","l","e">>, <<"L","i","s","t">>,
      <<"P","a","n","e","l">>, <<"S","e","c","t","i","o","n">> }

BusinessSubstrings == { <<"d","a","s","h","b","o","a","r","d">>, <<"a","d","m","i","n">>, <<"b","i","l","l","i","n","g">>, <<"a","u","t","h">>, <<"p","l","a","n">> }

has_critical(name) == \E w \in CriticalSubstrings : contains_ignoring_case(w, name)
has_medium(name) == \E w \in MediumSubstrings : contains_ignoring_case(w, name)
has_business(path) ==
    \E w \in BusinessSubstrings : contains_ignoring_case(w, path_str(path))

\* C2: a filename that contains a critical substring, ignoring case, gets
\* Critical whatever the path is, also when the path contains a
\* business-domain substring or the filename a medium substring.
C2_CriticalWhateverThePath ==
    pc = "done" /\ priority # "unset" /\ has_critical(filename) =>
        priority = "Critical"

C2_Witness ==
    /\ pc = "done"
    /\ filename = <<"S","E","T","T","I","N","G","S","P","A","G","E">>
    /\ filepath = <<<<"a","p","p">>, <<"d","a","s","h","b","o","a","r","d">>, <<"a","g","e","n","t","s">>, <<"S","E","T","T","I","N","G","S","P","A","G","E",".","t","s","x">>>>
    /\ priority = "Critical"

\* C3: without a critical substring in the filename the rules apply in
\* first-match order: High if the lower-cased path contains a business
\* substring (also when the filename contains a medium substring), else
\* Medium if the filename contains a medium substring, else Low; every
\* input gets exactly one of the four labels.
C3_FirstMatchOrder ==
    pc = "done" /\ priority # "unset" =>
        /\ priority \in { "Critical", "High", "Medium", "Low" }
        /\ ~ has_critical(filename) =>
              priority = IF has_business(filepath) THEN "High"
                         ELSE IF has_medium(filename) THEN "Medium"
                         ELSE "Low"

C3_Witness ==
    /\ pc = "done"
    /\ filename = <<"P","r","o","f","i","l","e","L","i","s","t">>
    /\ filepath = <<<<"a","p","p">>, <<"B","i","l","l","i","n","g">>, <<"P","r","o","f","i","l","e","L","i","s","t",".","t","s","x">>>>
    /\ priority = "High"

----------------------------------------------------------------------------
(* Claims about the scanner *)

\* the test file the claim names for a source file
C4_TestOf(p) ==
    Append(Append(path_parent(p), <<"_","_","t","e","s","t","s","_","_">>),
           path_stem(p) \o <<".","t","e","s","t">> \o path_suffix(p))

\* the files the claim says are listed
C4_Listed(p) ==
    /\ Len(p) > Len(scanRoot) /\ SubSeq(p, 1, Len(scanRoot)) = scanRoot
    /\ path_suffix(p) \in { <<".","t","s","x">>, <<".","t","s">> }
    /\ ~ str_in(<<"_","_","t","e","s","t","s","_","_">>, path_str(p))
    /\ ~ str_in(<<"n","o","d","e","_","m","o","d","u","l","e","s">>, path_str(p))
    /\ ~ str_in(<<".","n","e","x","t">>, path_str(p))
    /\ C4_TestOf(p) \notin DOMAIN fs.files
    /\ C4_TestOf(p) \notin fs.dirs

\* C4: analyze_directory returns exactly one entry for each file under the
\* root that has extension .tsx or .ts, whose path contains none of
\* __tests__, node_modules, .next, and that has no
\* <parent>/__tests__/<stem>.test<ext>; no entry for any other file; no file
\* twice.
C4_OneEntryPerUntestedFile ==
    pc = "done" =>
        \A p \in DOMAIN fs.files :
            Cardinality({ i \in DOMAIN results : results[i].path = relative_str(p) })
                = IF C4_Listed(p) THEN 1 ELSE 0

C4_Witness ==
    /\ pc = "done"
    /\ scanRoot = <<<<"c","o","m","p","o","n","e","n","t","s">>>>
    /\ \E i \in DOMAIN results : results[i].path = <<"c","o","m","p","o","n","e","n","t","s","/","u","i","/","B","u","t","t","o","n",".","t","s","x">>
    /\ ~ \E i \in DOMAIN results : results[i].path = <<"c","o","m","p","o","n","e","n","t","s","/","l","a","y","o","u","t","/","H","e","a","d","e","r",".","t","s","x">>
    /\ ~ \E i \in DOMAIN results : results[i].path = <<"c","o","m","p","o","n","e","n","t","s","/","u","i","/","n","o","d","e","_","m","o","d","u","l","e","s","/","p","k","g","/","i","n","d","e","x",".","t","s">>
    /\ <<<<"c","o","m","p","o","n","e","n","t","s">>, <<"l","a","y","o","u","t">>, <<"_","_","t","e","s","t","s","_","_">>, <<"H","e","a","d","e","r",".","t","e","s","t",".","t","s","x">>>> \in DOMAIN fs.files

----------------------------------------------------------------------------
(* Claims about the report *)

C5_PriorityRank(p) ==
    CASE p = "Critical" -> 1 [] p = "High" -> 2 [] p = "Medium" -> 3 [] p = "Low" -> 4

C5_ComplexityRank(c) ==
    CASE c = "High" -> 1 [] c = "Medium" -> 2 [] c = "Low" -> 3

\* entry a has a strictly smaller sort key than entry b
C5_Before(a, b) ==
    \/ C5_PriorityRank(a.priority) < C5_PriorityRank(b.priority)
    \/ /\ a.priority = b.priority
       /\ C5_ComplexityRank(a.complexity) < C5_ComplexityRank(b.complexity)
    \/ /\ a.priority = b.priority
       /\ a.complexity = b.complexity
       /\ a.lines > b.lines

C5_SameKey(a, b) ==
    a.priority = b.priority /\ a.complexity = b.complexity /\ a.lines = b.lines

\* where the scan had put an entry
C5_ScanIndex(e) == CHOOSE k \in DOMAIN scanned : scanned[k] = e

\* C5: after the sort, for every a before b in the list the key (priority
\* rank, complexity rank, lines descending) of a is not greater than that of
\* b, and entries with the same key keep the order the scan gave them.
C5_SortedAndStable ==
    pc \in { "sorted", "written" } =>
        /\ Len(untested) = Len(scanned)
        /\ \A k \in DOMAIN scanned : \E i \in DOMAIN untested : untested[i] = scanned[k]
        /\ \A i, j \in DOMAIN untested :
              i < j =>
                /\ ~ C5_Before(untested[j], untested[i])
                /\ C5_SameKey(untested[i], untested[j]) =>
                      C5_ScanIndex(untested[i]) < C5_ScanIndex(untested[j])

C5_Witness ==
    /\ pc = "sorted"
    /\ untested # scanned
    /\ \E i, j \in DOMAIN untested :
          i < j /\ C5_SameKey(untested[i], untested[j])
    /\ \E i, j \in DOMAIN untested :
          /\ untested[i].priority = untested[j].priority
          /\ untested[i].complexity = untested[j].complexity
          /\ untested[i].lines # untested[j].lines
    /\ \E i, j \in DOMAIN untested :
          /\ untested[i].priority = untested[j].priority
          /\ untested[i].complexity # untested[j].complexity
    /\ \E i, j \in DOMAIN untested : untested[i].priority # untested[j].priority

\* the places of the report's sections where an entry is printed
C6_Places(e) ==
    UNION { { <<s, k>> : k \in { k \in DOMAIN report.sections[s].items :
                                    report.sections[s].items[k] = e } } :
            s \in DOMAIN report.sections }

C6_Index(e) == CHOOSE i \in DOMAIN untested : untested[i] = e

\* C6: every gap entry is printed in exactly one category section, the one
\* of its category, and within a section the entries keep the relative
\* order of the sorted list.
C6_SectionsKeepOrder ==
    pc = "written" =>
        /\ \A i \in DOMAIN untested :
              /\ Cardinality(C6_Places(untested[i])) = 1
              /\ \A sk \in C6_Places(untested[i]) :
                    report.sections[sk[1]].category = untested[i].category
        /\ \A s, t \in DOMAIN report.sections :
              s # t => report.sections[s].category # report.sections[t].category
        /\ \A s \in DOMAIN report.sections :
              \A k, m \in DOMAIN report.sections[s].items :
                  k < m => C6_Index(report.sections[s].items[k])
                              < C6_Index(report.sections[s].items[m])

C6_Witness ==
    /\ pc = "written"
    /\ Len(report.sections) >= 2
    /\ \E s \in DOMAIN report.sections : Len(report.sections[s].items) >= 3

\* C7: the top-20 excerpt is the first min(20, n) entries of the sorted
\* list, numbered from 1 in that order, and no entry left out has a
\* strictly smaller key than one that is in it.
C7_TopTwentyIsPrefix ==
    pc = "written" =>
        /\ Len(report.top) = IF Len(untested) < 20 THEN Len(untested) ELSE 20
        /\ \A i \in DOMAIN report.top :
              report.top[i].n = i /\ report.top[i].item = untested[i]
        /\ \A i \in DOMAIN report.top :
              \A j \in DOMAIN untested :
                  j > Len(report.top) => ~ C5_Before(untested[j], report.top[i].item)

C7_Witness ==
    /\ pc = "written"
    /\ Len(untested) > 20
    /\ Len(report.top) = 20
    /\ report.top[20].item.priority = untested[21].priority

C8_Figures == { report.overall, report.components, report.app, report.services, report.lib }

\* C8: for the overall figure and each of the four groups, a total of 0
\* gives 0 percent with no division attempted; otherwise the percentage is
\* testFiles / totalFiles x 100 (as printed, to two decimals).
C8_CoverageGuarded ==
    /\ pc # "ZeroDivisionError"
    /\ pc = "written" =>
          /\ report.overall.total = counts.total_files
          /\ report.overall.tests = counts.total_test_files
          /\ \A f \in C8_Figures :
                /\ ~ f.pct.fault
                /\ f.total = 0 => f.pct.hundredths = 0
                /\ f.total > 0 =>
                      /\ 2 * (f.pct.hundredths * f.total - f.tests * 10000) <= f.total
                      /\ 2 * (f.tests * 10000 - f.pct.hundredths * f.total) <= f.total

C8_Witness ==
    /\ pc = "written"
    /\ report.lib.total = 0 /\ report.lib.pct.hundredths = 0
    /\ report.components.total > 0 /\ report.components.pct.hundredths > 0
----------------------------------------------------------------------------
(* C9: the sections of the skeleton *)

C9_AllSections ==
    << "Rendering", "State Management", "Form Handling", "API Integration",
       "Data Mutations", "User Interactions", "Accessibility", "Error Handling",
       "Edge Cases" >>

C9_Always ==
    { "Rendering", "User Interactions", "Accessibility", "Error Handling", "Edge Cases" }

C9_Has(name) == \E i \in DOMAIN skeleton.sections : skeleton.sections[i] = name

\* place of a section in the fixed order
C9_Rank(name) == CHOOSE i \in DOMAIN C9_AllSections : C9_AllSections[i] = name

\* C9: once generate_test_template has returned, the skeleton has the State
\* Management section iff analyze_component found at least one state
\* declaration, Form Handling iff it found the form signal, API Integration
\* iff the network-call signal, Data Mutations iff the mutation signal;
\* Rendering, User Interactions, Accessibility, Error Handling and Edge Cases
\* are there for every input; and the sections stand in the fixed order, each
\* once.
C9_SectionsFollowSignals ==
    pc = "generated" =>
        /\ C9_Has("State Management") <=> (info.state_hooks # <<>>)
        /\ C9_Has("Form Handling") <=> info.has_form
        /\ C9_Has("API Integration") <=> info.api_calls
        /\ C9_Has("Data Mutations") <=> info.has_mutations
        /\ \A name \in C9_Always : C9_Has(name)
        /\ \A i \in DOMAIN skeleton.sections :
              \E k \in DOMAIN C9_AllSections : skeleton.sections[i] = C9_AllSections[k]
        /\ \A i, j \in DOMAIN skeleton.sections :
              i < j => C9_Rank(skeleton.sections[i]) < C9_Rank(skeleton.sections[j])

\* a skeleton generated for a component with the network-call signal and a
\* state declaration, and neither the form nor the mutation signal
C9_Witness ==
    /\ pc = "generated"
    /\ info.api_calls /\ info.state_hooks # <<>>
    /\ ~ info.has_form /\ ~ info.has_mutations
    /\ skeleton.sections = << "Rendering", "State Management", "API Integration",
                              "User Interactions", "Accessibility", "Error Handling",
                              "Edge Cases" >>

----------------------------------------------------------------------------
(* C10: an existing skeleton is skipped *)

\* <parent>/__tests__/<stem>.test<ext> of the i-th component
C10_SkeletonOf(i) ==
    LET p == base_join(TOP_20_COMPONENTS[i])
    IN  Append(Append(path_parent(p), <<"_","_","t","e","s","t","s","_","_">>),
               path_stem(p) \o <<".","t","e","s","t">> \o path_suffix(p))

\* the next component of the loop has its skeleton already
C10_SkeletonExists ==
    /\ pc = "main"
    /\ idx < Len(TOP_20_COMPONENTS)
    /\ C10_SkeletonOf(idx + 1) \in DOMAIN fs.files

C10_SkipStep ==
    C10_SkeletonExists =>
        /\ fs' = fs
        /\ skipped' = skipped + 1
        /\ created' = created
        /\ errors' = errors

C10_SecondRun ==
    (run >= 2 /\ pc = "summary") => (created = 0 /\ fs = fsRunStart)

\* C10: a turn of the loop on a component whose skeleton file exists leaves
\* every file and directory as it was and counts the component as skipped,
\* not as created and not as an error; and when a run that follows another
\* run has ended, it has created 0 files and the file system is as the run
\* before left it.
C10_ExistingSkeletonSkipped == [][C10_SkipStep]_vars /\ [] C10_SecondRun

\* the second run is over, it has skipped all twenty components, and the
\* twenty skeletons are there
C10_Witness ==
    /\ run = 2 /\ pc = "summary"
    /\ skipped = Len(TOP_20_COMPONENTS) /\ created = 0
    /\ \A i \in DOMAIN TOP_20_COMPONENTS : C10_SkeletonOf(i) \in DOMAIN fs.files
    /\ \E i \in DOMAIN TOP_20_COMPONENTS : fs.files[C10_SkeletonOf(i)].kind = "skeleton"
----------------------------------------------------------------------------
(* C11: a failure on one component does not stop the batch *)

C11_Raised == { i \in DOMAIN log : log[i].returned = "raised" }

\* what main has printed so far: one entry for each of the first idx
\* components of the list, in list order, the exceptions counted as errors,
\* and the summary only after the twentieth
C11_EveryTargetOnce ==
    /\ pc \in { "main", "summary" }
    /\ Len(log) = idx
    /\ \A i \in DOMAIN log : log[i].target = TOP_20_COMPONENTS[i]
    /\ errors = Cardinality(C11_Raised)
    /\ \A i \in C11_Raised : log[i].counted = "errors"
    /\ pc = "summary" => idx = Len(TOP_20_COMPONENTS)

\* C11: whatever create_test_file does on a component (returns False for a
\* missing or unreadable file, raises an exception), main goes on: the
\* components are processed once each in list order, an exception is counted
\* in errors, and a run that has started always reaches the summary.
C11_BatchNeverStops ==
    [] C11_EveryTargetOnce /\ ((pc = "main") ~> (pc = "summary"))

\* the summary of a run in which create_test_file raised on one component
\* and created the skeleton of a later one
C11_Witness ==
    /\ pc = "summary"
    /\ errors >= 1
    /\ \E i, j \in DOMAIN log :
          i < j /\ log[i].returned = "raised" /\ log[j].returned = "True"

----------------------------------------------------------------------------
(* C12: skipped for an existing skeleton, and failed *)

C12_Source(i) == base_join(log[i].target)

\* the i-th component processed is missing or cannot be read
C12_Failed(i) ==
    \/ ~ path_exists(fsRunStart, C12_Source(i))
    \/ /\ C12_Source(i) \in DOMAIN fsRunStart.files
       /\ ~ fsRunStart.files[C12_Source(i)].readable

\* the j-th component processed is there and readable, and its skeleton was
\* there before the run
C12_AlreadyDone(j) ==
    /\ C12_Source(j) \in DOMAIN fsRunStart.files
    /\ fsRunStart.files[C12_Source(j)].readable
    /\ hand_written_test(C12_Source(j)) \in DOMAIN fsRunStart.files

\* C12: a component that is missing or unreadable is never added to the
\* counter that a component skipped for its existing skeleton is added to.
C12_CountedSeparately ==
    \A i, j \in DOMAIN log :
        (C12_Failed(i) /\ C12_AlreadyDone(j)) => log[i].counted # log[j].counted

----------------------------------------------------------------------------
(* C13: a source file that cannot be read *)

\* the priority the name and the path of p call for
C13_Priority(p) ==
    IF has_critical(path_stem(p)) THEN "Critical"
    ELSE IF has_business(p) THEN "High"
    ELSE IF has_medium(path_stem(p)) THEN "Medium"
    ELSE "Low"

C13_EntriesOf(p) == { i \in DOMAIN results : results[i].path = relative_str(p) }

\* C13: when analyze_directory has returned, every file under the root that
\* is a source file without a test and cannot be read has exactly one entry,
\* with 0 lines, complexity Low and the priority its name and path call for;
\* and every such file that can be read has its entry too, with its own
\* line count.
C13_UnreadableCountsZero ==
    pc = "done" =>
        \A p \in DOMAIN fs.files :
            C4_Listed(p) =>
                /\ Cardinality(C13_EntriesOf(p)) = 1
                /\ \A i \in C13_EntriesOf(p) :
                      IF fs.files[p].readable
                      THEN results[i].lines = fs.files[p].nlines
                      ELSE /\ results[i].lines = 0
                           /\ results[i].complexity = "Low"
                           /\ results[i].priority = C13_Priority(p)

\* a scan of components/ui in which AuthModal.tsx (310 lines) cannot be
\* read: it is listed with 0 lines, Low, Critical, and Button.tsx beside it
\* with its 200 lines
C13_Witness ==
    /\ pc = "done"
    /\ scanRoot = <<<<"c","o","m","p","o","n","e","n","t","s">>, <<"u","i">>>>
    /\ ~ fs.files[<<<<"c","o","m","p","o","n","e","n","t","s">>, <<"u","i">>, <<"A","u","t","h","M","o","d","a","l",".","t","s","x">>>>].readable
    /\ \E i \in DOMAIN results :
          /\ results[i].path = <<"c","o","m","p","o","n","e","n","t","s","/","u","i","/","A","u","t","h","M","o","d","a","l",".","t","s","x">>
          /\ results[i].lines = 0
          /\ results[i].complexity = "Low"
          /\ results[i].priority = "Critical"
    /\ \E i \in DOMAIN results :
          /\ results[i].path = <<"c","o","m","p","o","n","e","n","t","s","/","u","i","/","B","u","t","t","o","n",".","t","s","x">>
          /\ results[i].lines = 200

----------------------------------------------------------------------------
(* C14: what aborts a run of generate_report *)

\* the positions of a run that is still going on
C14_Running == { "start", "mkdir_done", "counted", "scanned", "sorted" }

\* C14: a run of generate_report ends in one of two ways only: aborted
\* because the output directory could not be created, or with the report
\* written; whatever directories of the project are missing or empty and
\* whatever files cannot be read.
C14_OnlyMkdirAborts ==
    pc \notin C14_Running =>
        \/ pc = "aborted" /\ ~ mkdir_parents(fs, OUTPUT_DIR).ok
        \/ pc = "written" /\ REPORT_FILE \in DOMAIN fs.files

----------------------------------------------------------------------------
(* C15: the skeleton is where the scanner looks for the test *)

C15_ListedPaths == { results[i].path : i \in DOMAIN results }

\* C15: when analyze_directory runs after main, no component for which
\* create_test_file returned True and that lies under the scanned root is
\* listed as a coverage gap, and no skeleton main has written is listed as
\* a source file.
C15_SkeletonClosesGap ==
    pc = "done" =>
        /\ \A i \in DOMAIN log :
              (log[i].returned = "True" /\ is_prefix(scanRoot, base_join(log[i].target)))
                  => log[i].target \notin C15_ListedPaths
        /\ \A q \in DOMAIN fs.files :
              fs.files[q].kind = "skeleton" => relative_str(q) \notin C15_ListedPaths

\* a scan of app after a run that created the skeleton of the first
\* component: app/page.tsx is listed, the component is not
C15_Witness ==
    /\ pc = "done"
    /\ scanRoot = <<<<"a","p","p">>>>
    /\ log[1].returned = "True"
    /\ <<<<"a","p","p">>, <<"d","e","v","-","r","e","s","o","u","r","c","e","s">>, <<"_","_","t","e","s","t","s","_","_">>, <<"D","e","v","R","e","s","o","u","r","c","e","s","C","l","i","e","n","t",".","t","e","s","t",".","t","s","x">>>> \in DOMAIN fs.files
    /\ <<"a","p","p","/","p","a","g","e",".","t","s","x">> \in C15_ListedPaths
    /\ <<"a","p","p","/","d","e","v","-","r","e","s","o","u","r","c","e","s","/","D","e","v","R","e","s","o","u","r","c","e","s","C","l","i","e","n","t",".","t","s","x">> \notin C15_ListedPaths

----------------------------------------------------------------------------
(* C16: the counters of main *)

\* the skeleton files this run has written
C16_Written ==
    { q \in DOMAIN fs.files \ DOMAIN fsRunStart.files : fs.files[q].kind = "skeleton" }

C16_Sum ==
    /\ created + skipped + errors = idx
    /\ created = Cardinality(C16_Written)
    /\ pc = "summary" => created + skipped + errors = Len(TOP_20_COMPONENTS)

C16_OneCounterPerTurn ==
    idx' = idx + 1 =>
        \/ created' = created + 1 /\ skipped' = skipped /\ errors' = errors
        \/ created' = created /\ skipped' = skipped + 1 /\ errors' = errors
        \/ created' = created /\ skipped' = skipped /\ errors' = errors + 1

\* C16: after the first idx components the three counters sum to idx and
\* created is the number of skeleton files the run has written; every turn
\* of the loop adds one to exactly one counter; at the summary the counters
\* sum to 20.
C16_CountersAddUp == [] C16_Sum /\ [][C16_OneCounterPerTurn]_vars

\* the summary of a run with a skeleton created, a component skipped and an
\* exception counted
C16_Witness ==
    /\ pc = "summary"
    /\ created >= 1 /\ skipped >= 1 /\ errors >= 1
    /\ created + skipped + errors = 20
    /\ Cardinality(C16_Written) = created

----------------------------------------------------------------------------
(* C17: the counts of the report *)

C17_Figures == { report.overall, report.components, report.app, report.services, report.lib }

\* C17: in a report that has been written, for the overall figure and each
\* of the four groups, 0 <= test files <= total files, so the percentage is
\* between 0 and 100, and the Gap, total files less test files, is not
\* negative.
C17_TestsWithinTotal ==
    pc = "written" =>
        /\ \A f \in C17_Figures :
              /\ 0 <= f.tests /\ f.tests <= f.total
              /\ 0 <= f.pct.hundredths /\ f.pct.hundredths <= 10000
        /\ report.gap >= 0

====
